---- MODULE Spec2Model ----
(***************************************************************************)
(* Component rendering engine of ReactSSR: the attribute serializer, the   *)
(* class resolver (cva + clsx + tailwind-merge as the factories use them)  *)
(* and the component factories.                                            *)
(*                                                                         *)
(* Representation.                                                         *)
(*   - A JavaScript value is a record [t, b, n, s, o]: t is its tag        *)
(*     ("undefined", "null", "boolean", "number", "string", "object"),     *)
(*     b the boolean, n the number, s the string, o the object's entries.  *)
(*   - A string is the sequence of its whitespace-separated words; the     *)
(*     words are separated by exactly one space, so "py-2 flex" is         *)
(*     <<"py-2", "flex">> and the empty string is << >>.                   *)
(*   - A props object (and any other object) is the sequence of its        *)
(*     entries [k, v] in property insertion order, keys distinct, which is *)
(*     the order Object.entries and a rest pattern iterate in.             *)
(*   - Markup is a sequence of tokens; the token " " is one space          *)
(*     character, every other token is a run of characters copied from     *)
(*     the template literal or from a value.                               *)
(***************************************************************************)
EXTENDS Integers, Sequences, FiniteSets, TLC

VARIABLES
    props,      \* the props object (a helper's options.hash, a helper's
                \* operands) handed to the operation
    called,     \* the operation that ran ("none" before any ran)
    out,        \* what the factory or utility returned
    block,      \* the block of a helper invocation (options.fn)
    returned,   \* what a helper returned to the template engine
    pc,         \* where bootstrap() stands
    helpers,    \* the names bound in Handlebars' helper table
    registrations,  \* how many times registerHandlebarsHelpers() ran
    served,     \* how many template renders were served
    calls,      \* the factory calls a caller has completed earlier
    stack,      \* the block-form helper invocations being evaluated
    trace,      \* the factory calls of one template evaluation, in order
    session,    \* the data of the browser's session (request.session)
    response    \* the response to the last request

vars == <<props, called, out, block, returned, pc, helpers, registrations,
          served, calls, stack, trace, session, response>>

\* the state of the process around a call
process == <<pc, helpers, registrations, served>>

\* the state of a caller's earlier calls, of a template evaluation and of
\* the web layer
elsewhere == <<calls, stack, trace, session, response>>

----------------------------------------------------------------------------
(* JavaScript values *)

Undefined == [t |-> "undefined", b |-> FALSE, n |-> 0, s |-> << >>, o |-> << >>]
Null      == [t |-> "null",      b |-> FALSE, n |-> 0, s |-> << >>, o |-> << >>]
Bool(x)   == [t |-> "boolean",   b |-> x,     n |-> 0, s |-> << >>, o |-> << >>]
Num(x)    == [t |-> "number",    b |-> FALSE, n |-> x, s |-> << >>, o |-> << >>]
Str(w)    == [t |-> "string",    b |-> FALSE, n |-> 0, s |-> w,     o |-> << >>]
\* an object value: o is the sequence of its entries
Obj(e)    == [t |-> "object",    b |-> FALSE, n |-> 0, s |-> << >>, o |-> e]

\* JavaScript truthiness (ToBoolean)
Truthy(v) ==
    CASE v.t = "undefined" -> FALSE
      [] v.t = "null"      -> FALSE
      [] v.t = "boolean"   -> v.b
      [] v.t = "number"    -> v.n # 0
      [] v.t = "string"    -> v.s # << >>
      [] OTHER             -> TRUE

\* String(value), also what a template literal's ${value} produces
ToStringJS(v) ==
    CASE v.t = "undefined" -> <<"undefined">>
      [] v.t = "null"      -> <<"null">>
      [] v.t = "boolean"   -> IF v.b THEN <<"true">> ELSE <<"false">>
      [] v.t = "number"    -> <<ToString(v.n)>>
      [] v.t = "string"    -> v.s
      [] OTHER             -> <<"[object", "Object]">>

----------------------------------------------------------------------------
(* Objects as entry sequences *)

Keys(p) == {p[i].k : i \in DOMAIN p}

Has(p, k) == k \in Keys(p)

\* p[k]: the value of the entry, undefined when there is none
Get(p, k) ==
    IF Has(p, k)
    THEN LET i == CHOOSE j \in DOMAIN p : p[j].k = k IN p[i].v
    ELSE Undefined

\* const { k1, k2, ...rest } = p: the entries left, in their order
RestOf(p, taken) ==
    LET Keep(e) == e.k \notin taken IN SelectSeq(p, Keep)

\* { ...p, k: v }: an existing key keeps its place, a new key goes last
Assign(p, k, v) ==
    IF Has(p, k)
    THEN [i \in DOMAIN p |-> IF p[i].k = k THEN [k |-> k, v |-> v] ELSE p[i]]
    ELSE Append(p, [k |-> k, v |-> v])

\* { ...p, ...(cond && { k: v }) }: spreading a falsy value adds nothing
AssignIf(p, cond, k, v) == IF cond THEN Assign(p, k, v) ELSE p

----------------------------------------------------------------------------
(* Strings as token sequences *)

RECURSIVE JoinWith(_, _)
\* Array.prototype.join: the pieces with the separator between them
JoinWith(pieces, sep) ==
    IF pieces = << >> THEN << >>
    ELSE IF Len(pieces) = 1 THEN pieces[1]
    ELSE pieces[1] \o sep \o JoinWith(Tail(pieces), sep)

\* the characters of a string of words: the words, one space between
Chars(words) ==
    IF words = << >> THEN << >>
    ELSE [i \in 1..(2 * Len(words) - 1) |->
              IF i % 2 = 1 THEN words[(i + 1) \div 2] ELSE " "]

\* a template-literal fragment: the empty string has no characters
Lit(s) == IF s = "" THEN << >> ELSE <<s>>

----------------------------------------------------------------------------
(* Attribute Serializer: utils.ts createAttributesStringified *)

\* .filter(([, value]) => value !== undefined && value !== null)
IsPresent(e) == e.v.t \notin {"undefined", "null"}

\* the .map callback without its typeof value === 'boolean' branch
AttributeText_NoBooleanBranch(e) ==
    Lit(e.k) \o <<"=\"">> \o Chars(ToStringJS(e.v)) \o <<"\"">>

\* the .map callback: a boolean gives the bare key or '', anything else
\* gives key="String(value)" with the value's characters as they are
AttributeText(e) ==
    IF e.v.t = "boolean"
    THEN (IF e.v.b THEN Lit(e.k) ELSE << >>)
    ELSE Lit(e.k) \o <<"=\"">> \o Chars(ToStringJS(e.v)) \o <<"\"">>

\* .filter(Boolean) on the mapped strings: the empty string is dropped
NonEmptyText(t) == t # << >>

\* the serializer without its .filter(Boolean) step
createAttributesStringified_KeepEmpty(attributes) ==
    LET present == SelectSeq(attributes, IsPresent)
        mapped  == [i \in DOMAIN present |-> AttributeText(present[i])]
    IN  JoinWith(mapped, <<" ">>)

createAttributesStringified(attributes) ==
    LET present == SelectSeq(attributes, IsPresent)
        mapped  == [i \in DOMAIN present |-> AttributeText(present[i])]
        kept    == SelectSeq(mapped, NonEmptyText)
    IN  JoinWith(kept, <<" ">>)

----------------------------------------------------------------------------
(* Class Resolver, part 1: clsx and class-variance-authority *)

\* what clsx contributes for one argument: a string as it is, a non-zero
\* number as its digits, the truthy keys of an object; nothing for
\* undefined, null, '' or a boolean
ClsxValue(v) ==
    CASE v.t = "string" -> v.s
      [] v.t = "number" -> (IF v.n # 0 THEN <<ToString(v.n)>> ELSE << >>)
      [] v.t = "object" ->
             LET on == SelectSeq(v.o, LAMBDA e : Truthy(e.v))
             IN  [i \in DOMAIN on |-> on[i].k]
      [] OTHER          -> << >>

\* clsx(a, b, ...): the contributions joined by one space
clsx(values) ==
    IF values = << >> THEN << >>
    ELSE LET F[i \in 0..Len(values)] ==
                 IF i = 0 THEN << >> ELSE F[i - 1] \o ClsxValue(values[i])
         IN  F[Len(values)]

\* cva's key without the || falsyToString(defaultValue) fallback
VariantKey_NoDefault(v, defaultKey) == ToStringJS(v)

\* cva's falsyToString(value) || falsyToString(defaultValue): a boolean and
\* the number 0 become their (truthy) string form, any other falsy value
\* gives way to the axis's default
VariantKey(v, defaultKey) ==
    IF v.t \in {"boolean", "number"} \/ Truthy(v)
    THEN ToStringJS(v)
    ELSE <<defaultKey>>

\* variants[axis][variantKey]: the fragment of the value named by the key,
\* undefined (no classes) when the axis has no such value; a null prop
\* selects nothing
VariantClassNames(axis, v) ==
    IF v.t = "null" THEN << >>
    ELSE LET key == VariantKey(v, axis.default)
             hit == {i \in DOMAIN axis.values :
                        key = <<axis.values[i].name>>}
         IN  IF hit = {} THEN << >>
             ELSE axis.values[CHOOSE i \in hit : TRUE].classes

\* cva(base, config)(props) = cx(base, one fragment per axis in the order
\* the table declares the axes)
cva(table, p) ==
    LET axes == table.axes
        F[i \in 0..Len(axes)] ==
            IF i = 0 THEN table.base
            ELSE F[i - 1] \o VariantClassNames(axes[i], Get(p, axes[i].axis))
    IN  F[Len(axes)]

----------------------------------------------------------------------------
(* Class Resolver, part 2: tailwind-merge *)

\* The classes tailwind-merge's default configuration recognises, among the
\* classes the factories and the callers of this model use: <<class,
\* modifiers, class group>>.  A class that is not listed is not a Tailwind
\* class ("@container/card-header", a caller's own class name).
TwClasses ==
    { <<"flex", "", "display">>, <<"inline-flex", "", "display">>,
      <<"grid", "", "display">>, <<"block", "", "display">>,
      <<"relative", "", "position">>,
      <<"items-center", "", "align-items">>,
      <<"items-start", "", "align-items">>,
      <<"justify-between", "", "justify-content">>,
      <<"justify-center", "", "justify-content">>,
      <<"justify-start", "", "justify-content">>,
      <<"self-start", "", "align-self">>,
      <<"justify-self-end", "", "justify-self">>,
      <<"flex-col", "", "flex-direction">>,
      <<"shrink-0", "", "shrink">>,
      <<"gap-1", "", "gap">>, <<"gap-2", "", "gap">>, <<"gap-6", "", "gap">>,
      <<"auto-rows-min", "", "auto-rows">>,
      <<"grid-rows-[auto_auto]", "", "grid-rows">>,
      <<"has-data-[slot=card-action]:grid-cols-[1fr_auto]",
        "has-data-[slot=card-action]", "grid-cols">>,
      <<"col-start-2", "", "col-start">>,
      <<"row-span-2", "", "row-start-end">>,
      <<"row-start-1", "", "row-start">>,
      <<"p-2", "", "p">>, <<"p-4", "", "p">>, <<"p-6", "", "p">>,
      <<"p-8", "", "p">>,
      <<"px-2", "", "px">>, <<"px-2.5", "", "px">>, <<"px-3", "", "px">>,
      <<"px-4", "", "px">>, <<"px-6", "", "px">>,
      <<"py-0.5", "", "py">>, <<"py-2", "", "py">>, <<"py-4", "", "py">>,
      <<"py-6", "", "py">>, <<"py-8", "", "py">>,
      <<"[.border-b]:pb-6", "[.border-b]", "pb">>,
      <<"[.border-t]:pt-6", "[.border-t]", "pt">>,
      <<"w-full", "", "w">>, <<"w-fit", "", "w">>,
      <<"h-8", "", "h">>, <<"h-9", "", "h">>, <<"h-10", "", "h">>,
      <<"size-8", "", "size">>, <<"size-10", "", "size">>,
      <<"size-12", "", "size">>, <<"size-16", "", "size">>,
      <<"[&>svg]:size-3", "[&>svg]", "size">>,
      <<"[&>svg]:pointer-events-none", "[&>svg]", "pointer-events">>,
      <<"overflow-hidden", "", "overflow">>,
      <<"whitespace-nowrap", "", "whitespace">>,
      <<"appearance-none", "", "appearance">>,
      <<"rounded-md", "", "rounded">>, <<"rounded-lg", "", "rounded">>,
      <<"rounded-xl", "", "rounded">>, <<"rounded-full", "", "rounded">>,
      <<"border", "", "border-w">>, <<"border-2", "", "border-w">>,
      <<"border-b", "", "border-w-b">>,
      <<"border-gray-100", "", "border-color">>,
      <<"border-gray-200", "", "border-color">>,
      <<"border-gray-300", "", "border-color">>,
      <<"border-transparent", "", "border-color">>,
      <<"border-red-500", "", "border-color">>,
      <<"border-green-500", "", "border-color">>,
      <<"focus-visible:border-gray-300", "focus-visible", "border-color">>,
      <<"focus-visible:border-ring", "focus-visible", "border-color">>,
      <<"aria-invalid:border-destructive", "aria-invalid", "border-color">>,
      <<"bg-white", "", "bg-color">>, <<"bg-card", "", "bg-color">>,
      <<"bg-muted", "", "bg-color">>, <<"bg-primary", "", "bg-color">>,
      <<"bg-secondary", "", "bg-color">>, <<"bg-accent", "", "bg-color">>,
      <<"bg-destructive", "", "bg-color">>,
      <<"bg-gray-100", "", "bg-color">>, <<"bg-transparent", "", "bg-color">>,
      <<"hover:bg-gray-50", "hover", "bg-color">>,
      <<"dark:bg-destructive/60", "dark", "bg-color">>,
      <<"[a&]:hover:bg-primary/90", "[a&]:hover", "bg-color">>,
      <<"[a&]:hover:bg-secondary/90", "[a&]:hover", "bg-color">>,
      <<"[a&]:hover:bg-destructive/90", "[a&]:hover", "bg-color">>,
      <<"[a&]:hover:bg-accent", "[a&]:hover", "bg-color">>,
      <<"bg-gradient-to-br", "", "bg-image">>,
      <<"from-white", "", "gradient-from">>,
      <<"dark:from-gray-900", "dark", "gradient-from">>,
      <<"to-gray-50", "", "gradient-to">>,
      <<"dark:to-gray-800", "dark", "gradient-to">>,
      <<"text-xs", "", "font-size">>, <<"text-sm", "", "font-size">>,
      <<"text-base", "", "font-size">>, <<"text-lg", "", "font-size">>,
      <<"leading-none", "", "leading">>,
      <<"font-medium", "", "font-weight">>,
      <<"font-semibold", "", "font-weight">>,
      <<"text-white", "", "text-color">>,
      <<"text-foreground", "", "text-color">>,
      <<"text-card-foreground", "", "text-color">>,
      <<"text-muted-foreground", "", "text-color">>,
      <<"text-primary-foreground", "", "text-color">>,
      <<"text-secondary-foreground", "", "text-color">>,
      <<"text-accent-foreground", "", "text-color">>,
      <<"text-destructive-foreground", "", "text-color">>,
      <<"placeholder:text-muted-foreground", "placeholder", "text-color">>,
      <<"[a&]:hover:text-accent-foreground", "[a&]:hover", "text-color">>,
      <<"shadow-sm", "", "shadow">>, <<"hover:shadow-md", "hover", "shadow">>,
      <<"transition-colors", "", "transition">>,
      <<"transition-all", "", "transition">>,
      <<"transition-[color,box-shadow]", "", "transition">>,
      <<"ring-offset-white", "", "ring-offset-color">>,
      <<"focus-visible:outline-none", "focus-visible", "outline-style">>,
      <<"focus-visible:ring-2", "focus-visible", "ring-w">>,
      <<"focus-visible:ring-[3px]", "focus-visible", "ring-w">>,
      <<"focus-visible:ring-offset-2", "focus-visible", "ring-offset-w">>,
      <<"focus-visible:ring-primary", "focus-visible", "ring-color">>,
      <<"focus-visible:ring-red-500", "focus-visible", "ring-color">>,
      <<"focus-visible:ring-green-500", "focus-visible", "ring-color">>,
      <<"focus-visible:ring-ring/50", "focus-visible", "ring-color">>,
      <<"focus-visible:ring-destructive/20", "focus-visible", "ring-color">>,
      <<"dark:focus-visible:ring-destructive/40", "dark:focus-visible",
        "ring-color">>,
      <<"aria-invalid:ring-destructive/20", "aria-invalid", "ring-color">>,
      <<"dark:aria-invalid:ring-destructive/40", "aria-invalid:dark",
        "ring-color">>,
      <<"disabled:cursor-not-allowed", "disabled", "cursor">>,
      <<"disabled:opacity-50", "disabled", "opacity">>,
      <<"space-y-2", "", "space-y">>, <<"space-y-4", "", "space-y">> }

TwKnown == {r[1] : r \in TwClasses}

TwRow == [c \in TwKnown |-> CHOOSE r \in TwClasses : r[1] = c]

\* the class id twMerge compares: <<sorted modifiers, class group>>, with
\* an empty class group for a class that is not a Tailwind class
ClassId(c) ==
    IF c \in TwKnown THEN <<TwRow[c][2], TwRow[c][3]>> ELSE <<"", "">>

\* tailwind-merge's conflictingClassGroups, for the groups of TwClasses
ConflictingClassGroups(g) ==
    CASE g = "p"         -> {"px", "py", "ps", "pe", "pt", "pr", "pb", "pl"}
      [] g = "px"        -> {"pr", "pl"}
      [] g = "py"        -> {"pt", "pb"}
      [] g = "size"      -> {"w", "h"}
      [] g = "overflow"  -> {"overflow-x", "overflow-y"}
      [] g = "gap"       -> {"gap-x", "gap-y"}
      [] g = "rounded"   -> {"rounded-s", "rounded-e", "rounded-t",
                             "rounded-r", "rounded-b", "rounded-l",
                             "rounded-ss", "rounded-se", "rounded-ee",
                             "rounded-es", "rounded-tl", "rounded-tr",
                             "rounded-br", "rounded-bl"}
      [] g = "border-w"  -> {"border-w-x", "border-w-y", "border-w-s",
                             "border-w-e", "border-w-t", "border-w-r",
                             "border-w-b", "border-w-l"}
      [] g = "border-color" ->
                            {"border-color-x", "border-color-y",
                             "border-color-s", "border-color-e",
                             "border-color-t", "border-color-r",
                             "border-color-b", "border-color-l"}
      [] g = "font-size" -> {"leading"}
      [] g = "row-start-end" -> {"row-start", "row-end"}
      [] OTHER           -> {}

\* mergeClassList: the classes are visited from the last to the first; a
\* Tailwind class is dropped when a class kept to its right has the same
\* class id or a class id in conflict with it; every other class is kept
mergeClassList(classNames) ==
    LET n == Len(classNames)
        G[j \in 1..(n + 1)] ==
            IF j = n + 1 THEN [inConflict |-> {}, result |-> << >>]
            ELSE LET c    == classNames[j]
                     id   == ClassId(c)
                     next == G[j + 1]
                 IN  IF id[2] = ""
                     THEN [next EXCEPT !.result = <<c>> \o @]
                     ELSE IF id \in next.inConflict
                     THEN next
                     ELSE [inConflict |->
                               next.inConflict \cup {id} \cup
                               {<<id[1], g>> : g \in ConflictingClassGroups(id[2])},
                           result |-> <<c>> \o next.result]
    IN  G[1].result

twMerge(classList) == mergeClassList(classList)

\* utils.ts cn(...inputs) = twMerge(clsx(inputs))
cn(inputs) == twMerge(clsx(inputs))

----------------------------------------------------------------------------
(* Variant tables *)

Value(name, classes) == [name |-> name, classes |-> classes]

Axis(axis, default, values) ==
    [axis |-> axis, default |-> default, values |-> values]

activityItemVariants ==
    [base |-> <<"flex", "items-center", "justify-between", "py-4",
                "hover:bg-gray-50", "px-4", "rounded-lg",
                "transition-colors">>,
     axes |-> << Axis("hasBorder", "true",
                      << Value("true", <<"border-b", "border-gray-100">>),
                         Value("false", << >>) >>) >>]

avatarVariants ==
    [base |-> <<"relative", "flex", "shrink-0", "overflow-hidden",
                "rounded-full">>,
     axes |-> << Axis("variant", "default",
                      << Value("default", <<"bg-muted">>),
                         Value("primary",
                               <<"bg-primary", "text-primary-foreground">>),
                         Value("secondary",
                               <<"bg-secondary", "text-secondary-foreground">>),
                         Value("accent",
                               <<"bg-accent", "text-accent-foreground">>),
                         Value("destructive",
                               <<"bg-destructive",
                                 "text-destructive-foreground">>) >>),
                 Axis("size", "md",
                      << Value("sm", <<"size-8", "text-xs">>),
                         Value("md", <<"size-10", "text-sm">>),
                         Value("lg", <<"size-12", "text-base">>),
                         Value("xl", <<"size-16", "text-lg">>) >>) >>]

kpiVariants ==
    [base |-> <<"rounded-lg", "border", "bg-card", "text-card-foreground",
                "shadow-sm", "transition-all", "hover:shadow-md">>,
     axes |-> << Axis("variant", "default",
                      << Value("default", <<"border-gray-200">>),
                         Value("gradient",
                               <<"bg-gradient-to-br", "from-white",
                                 "to-gray-50", "border-gray-200">>),
                         Value("outlined",
                               <<"border-2", "border-gray-300">>) >>),
                 Axis("size", "default",
                      << Value("default", <<"p-6">>),
                         Value("sm", <<"p-4">>),
                         Value("lg", <<"p-8">>) >>) >>]

cardVariants ==
    [base |-> <<"bg-card", "text-card-foreground", "flex", "flex-col",
                "gap-6", "rounded-xl", "border", "shadow-sm">>,
     axes |-> << Axis("variant", "default",
                      << Value("default", <<"border-gray-200">>),
                         Value("gradient",
                               <<"bg-gradient-to-br", "from-white",
                                 "dark:from-gray-900", "to-gray-50",
                                 "dark:to-gray-800", "border-gray-200">>),
                         Value("outlined",
                               <<"border-2", "border-gray-300">>) >>),
                 Axis("padding", "md",
                      << Value("none", << >>),
                         Value("sm", <<"py-4">>),
                         Value("md", <<"py-6">>),
                         Value("lg", <<"py-8">>) >>) >>]

inputVariants ==
    [base |-> <<"w-full", "appearance-none", "bg-white", "text-foreground",
                "placeholder:text-muted-foreground", "border",
                "border-gray-300", "rounded-md", "ring-offset-white",
                "transition-colors", "focus-visible:outline-none",
                "focus-visible:ring-2", "focus-visible:ring-primary",
                "focus-visible:ring-offset-2", "disabled:cursor-not-allowed",
                "disabled:opacity-50">>,
     axes |-> << Axis("variant", "default",
                      << Value("default", << >>),
                         Value("subtle", <<"bg-gray-100">>),
                         Value("ghost",
                               <<"bg-transparent", "border-transparent",
                                 "focus-visible:border-gray-300">>) >>),
                 Axis("size", "md",
                      << Value("lg", <<"h-10", "px-4", "text-sm">>),
                         Value("md", <<"h-9", "px-3", "text-sm">>),
                         Value("sm", <<"h-8", "px-2.5", "text-xs">>) >>),
                 Axis("state", "normal",
                      << Value("normal", << >>),
                         Value("error",
                               <<"border-red-500",
                                 "focus-visible:ring-red-500">>),
                         Value("success",
                               <<"border-green-500",
                                 "focus-visible:ring-green-500">>) >>) >>]

badgeVariants ==
    [base |-> <<"inline-flex", "items-center", "justify-center",
                "rounded-full", "border", "px-2", "py-0.5", "text-xs",
                "font-medium", "w-fit", "whitespace-nowrap", "shrink-0",
                "[&>svg]:size-3", "gap-1", "[&>svg]:pointer-events-none",
                "focus-visible:border-ring", "focus-visible:ring-ring/50",
                "focus-visible:ring-[3px]",
                "aria-invalid:ring-destructive/20",
                "dark:aria-invalid:ring-destructive/40",
                "aria-invalid:border-destructive",
                "transition-[color,box-shadow]", "overflow-hidden">>,
     axes |-> << Axis("variant", "default",
                      << Value("default",
                               <<"border-transparent", "bg-primary",
                                 "text-primary-foreground",
                                 "[a&]:hover:bg-primary/90">>),
                         Value("secondary",
                               <<"border-transparent", "bg-secondary",
                                 "text-secondary-foreground",
                                 "[a&]:hover:bg-secondary/90">>),
                         Value("destructive",
                               <<"border-transparent", "bg-destructive",
                                 "text-white", "[a&]:hover:bg-destructive/90",
                                 "focus-visible:ring-destructive/20",
                                 "dark:focus-visible:ring-destructive/40",
                                 "dark:bg-destructive/60">>),
                         Value("outline",
                               <<"text-foreground", "[a&]:hover:bg-accent",
                                 "[a&]:hover:text-accent-foreground">>) >>) >>]

\* the class strings the card sub-regions pass to cn as their first argument
cardHeaderBase ==
    <<"@container/card-header", "grid", "auto-rows-min",
      "grid-rows-[auto_auto]", "items-start", "gap-2", "px-6",
      "has-data-[slot=card-action]:grid-cols-[1fr_auto]",
      "[.border-b]:pb-6">>
cardTitleBase == <<"leading-none", "font-semibold">>
cardDescriptionBase == <<"text-muted-foreground", "text-sm">>
cardActionBase ==
    <<"col-start-2", "row-span-2", "row-start-1", "self-start",
      "justify-self-end">>
cardContentBase == <<"px-6">>
cardFooterBase == <<"flex", "items-center", "px-6", "[.border-t]:pt-6">>

----------------------------------------------------------------------------
(* Component factories *)

\* what a call gives back: the markup it returned, or a thrown TypeError
Returned(html) == [html |-> html, threw |-> FALSE]
Thrown == [html |-> << >>, threw |-> TRUE]

\* class="${classes}" inside a template literal
ClassAttribute(classes) == <<"class=\"">> \o Chars(classes) \o <<"\"">>

\* a template that leaves the content out
Content_Omitted(p) == << >>

\* children ?? '' interpolated into the template
Content(p) ==
    LET children == Get(p, "children")
    IN  IF children.t \in {"undefined", "null"} THEN << >>
        ELSE Chars(ToStringJS(children))

\* obj.field for a value of any type: undefined on a primitive
Field(obj, f) == IF obj.t = "object" THEN Get(obj.o, f) ELSE Undefined

(* -- card and its sub-regions: user-info-fields.ts 264..532 -- *)

getCardAttributes(p) ==
    RestOf(p, {"variant", "padding", "className", "children"})

createCard(p) ==
    LET rest    == RestOf(p, {"variant", "padding", "className", "children"})
        classes == cn(<<Str(cva(cardVariants, p)), Get(p, "className")>>)
        attributesStringified ==
            createAttributesStringified(getCardAttributes(rest))
    IN  Returned(<<"<div", " ", "data-slot=\"card\"", " ">>
                 \o ClassAttribute(classes) \o <<" ">>
                 \o attributesStringified \o <<">">>
                 \o Content(p) \o <<"</div>">>)

\* getCardHeaderAttributes .. getCardFooterAttributes: the same rest pattern
getCardPartAttributes(p) == RestOf(p, {"className", "children"})

\* createCardHeader .. createCardFooter differ in the data-slot and in the
\* class string they pass to cn
createCardPart(slot, base, p) ==
    LET rest    == RestOf(p, {"className", "children"})
        classes == cn(<<Str(base), Get(p, "className")>>)
        attributesStringified ==
            createAttributesStringified(getCardPartAttributes(rest))
    IN  Returned(<<"<div", " ", slot, " ">>
                 \o ClassAttribute(classes) \o <<" ">>
                 \o attributesStringified \o <<">">>
                 \o Content(p) \o <<"</div>">>)

createCardHeader(p) ==
    createCardPart("data-slot=\"card-header\"", cardHeaderBase, p)
createCardTitle(p) ==
    createCardPart("data-slot=\"card-title\"", cardTitleBase, p)
createCardDescription(p) ==
    createCardPart("data-slot=\"card-description\"", cardDescriptionBase, p)
createCardAction(p) ==
    createCardPart("data-slot=\"card-action\"", cardActionBase, p)
createCardContent(p) ==
    createCardPart("data-slot=\"card-content\"", cardContentBase, p)
createCardFooter(p) ==
    createCardPart("data-slot=\"card-footer\"", cardFooterBase, p)

(* -- badge: part_002 132..171 -- *)

createBadge(p) ==
    LET rest    == RestOf(p, {"variant", "className", "children"})
        classes == cn(<<Str(cva(badgeVariants, p)), Get(p, "className")>>)
        attributesStringified == createAttributesStringified(rest)
    IN  Returned(<<"<span", " ">>
                 \o ClassAttribute(classes) \o <<" ">>
                 \o attributesStringified \o <<">">>
                 \o Content(p) \o <<"</span>">>)

(* -- button: the component of the implementation guide, part_001 505..565 -- *)

\* cva() as the guide declares it: no base classes, no variant table
buttonVariants == [base |-> << >>, axes |-> << >>]

getButtonAttributes(p) ==
    LET attributes ==
            RestOf(p, {"variant", "size", "className", "children", "onclick"})
        a1 == AssignIf(attributes, Truthy(Get(p, "onclick")),
                       "onclick", Get(p, "onclick"))
        a2 == AssignIf(a1, Truthy(Get(p, "disabled")), "disabled", Bool(TRUE))
    IN  AssignIf(a2, Truthy(Get(p, "type")), "type", Get(p, "type"))

createButton(p) ==
    LET rest    == RestOf(p, {"variant", "size", "className", "children"})
        classes == cn(<<Str(cva(buttonVariants, p)), Get(p, "className")>>)
        attributesStringified ==
            createAttributesStringified(getButtonAttributes(rest))
    IN  Returned(<<"<button", " ">>
                 \o ClassAttribute(classes) \o <<" ">>
                 \o attributesStringified \o <<">">>
                 \o Content(p) \o <<"</button>">>)

(* -- input: part_002 1..130 -- *)

\* getInputAttributes without the handler props in its rest pattern
getInputAttributes_KeepHandlers(p) ==
    LET attributes == RestOf(p, {"variant", "size", "state", "className"})
        a1 == AssignIf(attributes, Truthy(Get(p, "onInput")),
                       "oninput", Get(p, "onInput"))
        a2 == AssignIf(a1, Truthy(Get(p, "onChange")),
                       "onchange", Get(p, "onChange"))
        a3 == AssignIf(a2, Truthy(Get(p, "onBlur")),
                       "onblur", Get(p, "onBlur"))
        a4 == AssignIf(a3, Truthy(Get(p, "onFocus")),
                       "onfocus", Get(p, "onFocus"))
        a5 == AssignIf(a4, Truthy(Get(p, "disabled")), "disabled", Bool(TRUE))
        a6 == AssignIf(a5, Truthy(Get(p, "readOnly")), "readonly", Bool(TRUE))
        a7 == AssignIf(a6, Truthy(Get(p, "required")), "required", Bool(TRUE))
    IN  AssignIf(a7, Truthy(Get(p, "autoFocus")), "autofocus", Bool(TRUE))

getInputAttributes(p) ==
    LET attributes ==
            RestOf(p, {"variant", "size", "state", "className",
                       "onInput", "onChange", "onBlur", "onFocus"})
        a1 == AssignIf(attributes, Truthy(Get(p, "onInput")),
                       "oninput", Get(p, "onInput"))
        a2 == AssignIf(a1, Truthy(Get(p, "onChange")),
                       "onchange", Get(p, "onChange"))
        a3 == AssignIf(a2, Truthy(Get(p, "onBlur")),
                       "onblur", Get(p, "onBlur"))
        a4 == AssignIf(a3, Truthy(Get(p, "onFocus")),
                       "onfocus", Get(p, "onFocus"))
        a5 == AssignIf(a4, Truthy(Get(p, "disabled")), "disabled", Bool(TRUE))
        a6 == AssignIf(a5, Truthy(Get(p, "readOnly")), "readonly", Bool(TRUE))
        a7 == AssignIf(a6, Truthy(Get(p, "required")), "required", Bool(TRUE))
    IN  AssignIf(a7, Truthy(Get(p, "autoFocus")), "autofocus", Bool(TRUE))

createInput(p) ==
    LET rest    == RestOf(p, {"variant", "size", "state", "className"})
        classes == cn(<<Str(cva(inputVariants, p)), Get(p, "className")>>)
        attributesStringified ==
            createAttributesStringified(getInputAttributes(rest))
    IN  Returned(<<"<input", " ">>
                 \o ClassAttribute(classes) \o <<" ">>
                 \o attributesStringified \o <<" ", "/>">>)

(* -- avatar: avatar.ts -- *)

getAvatarAttributes(p) ==
    RestOf(p, {"variant", "size", "className", "name", "src", "alt"})

\* word.charAt(0).toUpperCase() for the words the modelled callers use
UpperInitial(word) ==
    CASE word = "Ada"      -> "A"
      [] word = "Lovelace" -> "L"
      [] word = "King"     -> "K"
      [] word = "Prince"   -> "P"
      [] word = "grace"    -> "G"
      [] word = "ada"      -> "A"
      [] word = "lovelace" -> "L"
      [] word = "3po"      -> "3"
      [] OTHER             -> word

\* initials taken from the first two tokens instead of the first and last
getInitials_SecondToken(name) ==
    IF ~Truthy(name) THEN << >>
    ELSE LET parts == name.s
         IN  IF Len(parts) = 1 THEN <<UpperInitial(parts[1])>>
             ELSE <<UpperInitial(parts[1]), UpperInitial(parts[2])>>

\* getInitials(name) for a string name: name.trim().split(/\s+/)
getInitials(name) ==
    IF ~Truthy(name) THEN << >>
    ELSE LET parts == name.s
         IN  IF Len(parts) = 1 THEN <<UpperInitial(parts[1])>>
             ELSE <<UpperInitial(parts[1]), UpperInitial(parts[Len(parts)])>>

createAvatar(p) ==
    LET name    == Get(p, "name")
        src     == Get(p, "src")
        alt     == Get(p, "alt")
        rest    == RestOf(p, {"variant", "size", "className",
                              "name", "src", "alt"})
        classes == cn(<<Str(cva(avatarVariants, p)), Get(p, "className")>>)
        attributesStringified ==
            createAttributesStringified(getAvatarAttributes(rest))
        initials   == IF Truthy(name) THEN getInitials(name) ELSE << >>
        displayAlt == IF Truthy(alt) THEN alt
                      ELSE IF Truthy(name) THEN name ELSE Str(<<"Avatar">>)
    IN  IF Truthy(name) /\ name.t # "string"
        THEN Thrown     \* name.trim is not a function
        ELSE IF Truthy(src)
        THEN Returned(<<"<img", " ", "data-slot=\"avatar\"", " ">>
                      \o ClassAttribute(classes) \o <<" ">>
                      \o <<"src=\"">> \o Chars(ToStringJS(src)) \o <<"\"", " ">>
                      \o <<"alt=\"">> \o Chars(ToStringJS(displayAlt))
                      \o <<"\"", " ">>
                      \o attributesStringified \o <<" ", "/>">>)
        ELSE Returned(<<"<div", " ", "data-slot=\"avatar\"", " ">>
                      \o <<"class=\"">> \o Chars(classes)
                      \o <<" ", "flex", " ", "items-center", " ",
                           "justify-center", " ", "font-semibold", "\"", " ">>
                      \o attributesStringified \o <<">">>
                      \o initials \o <<"</div>">>)

(* -- KPI: user-info-fields.ts 50..258 -- *)

getKPIAttributes(p) ==
    RestOf(p, {"variant", "size", "className", "title", "value",
               "description", "iconPath", "iconColor", "change", "trend",
               "changeDescription"})

\* colorMap[color || 'blue'] || colorMap.blue
getIconColorClasses(color) ==
    LET key == IF Truthy(color) THEN ToStringJS(color) ELSE <<"blue">>
    IN  CASE key = <<"blue">>   -> <<"bg-blue-100", " ", "text-blue-600">>
          [] key = <<"purple">> -> <<"bg-purple-100", " ", "text-purple-600">>
          [] key = <<"cyan">>   -> <<"bg-cyan-100", " ", "text-cyan-600">>
          [] key = <<"green">>  -> <<"bg-green-100", " ", "text-green-600">>
          [] key = <<"yellow">> -> <<"bg-yellow-100", " ", "text-yellow-600">>
          [] key = <<"red">>    -> <<"bg-red-100", " ", "text-red-600">>
          [] key = <<"gray">>   -> <<"bg-gray-100", " ", "text-gray-600">>
          [] OTHER              -> <<"bg-blue-100", " ", "text-blue-600">>

\* trendMap[trend || 'neutral'] || trendMap.neutral
getTrendColorClasses(trend) ==
    LET key == IF Truthy(trend) THEN ToStringJS(trend) ELSE <<"neutral">>
    IN  CASE key = <<"up">>      -> <<"text-green-600">>
          [] key = <<"down">>    -> <<"text-red-600">>
          [] key = <<"neutral">> -> <<"text-gray-600">>
          [] OTHER               -> <<"text-gray-600">>

getTrendIcon(trend) ==
    IF trend = Str(<<"up">>) THEN <<"<svg-trend-up>">>
    ELSE IF trend = Str(<<"down">>) THEN <<"<svg-trend-down>">>
    ELSE << >>

\* a test by truthiness where the code tests props.value !== undefined
IsDefined_Truthy(v) == Truthy(v)

\* props.value !== undefined
IsDefined(v) == v.t # "undefined"

createKPI(p) ==
    LET rest    == RestOf(p, {"variant", "size", "className"})
        classes == cn(<<Str(cva(kpiVariants, p)), Get(p, "className")>>)
        attributesStringified ==
            createAttributesStringified(getKPIAttributes(rest))
        iconClasses  == getIconColorClasses(Get(p, "iconColor"))
        trendClasses == getTrendColorClasses(Get(p, "trend"))
        trendIcon    == getTrendIcon(Get(p, "trend"))
        changeDescriptionHtml ==
            IF Truthy(Get(p, "changeDescription"))
            THEN <<"<span class=\"text-xs text-muted-foreground ml-1\">">>
                 \o Chars(ToStringJS(Get(p, "changeDescription")))
                 \o <<"</span>">>
            ELSE << >>
        iconSvg ==
            IF Truthy(Get(p, "iconPath"))
            THEN <<"<div class=\"flex h-10 w-10 shrink-0 items-center justify-center rounded-lg", " ">>
                 \o iconClasses \o <<"\">", "\n", "<svg-icon d=\"">>
                 \o Chars(ToStringJS(Get(p, "iconPath")))
                 \o <<"\">", "\n", "</div>">>
            ELSE << >>
        titleHtml ==
            IF Truthy(Get(p, "title"))
            THEN <<"<p class=\"text-sm font-medium text-muted-foreground mb-1\">">>
                 \o Chars(ToStringJS(Get(p, "title"))) \o <<"</p>">>
            ELSE << >>
        valueHtml ==
            IF IsDefined(Get(p, "value"))
            THEN <<"<h3 class=\"text-2xl font-bold text-foreground\">">>
                 \o Chars(ToStringJS(Get(p, "value"))) \o <<"</h3>">>
            ELSE << >>
        descriptionHtml ==
            IF Truthy(Get(p, "description"))
            THEN <<"<p class=\"text-xs text-muted-foreground mt-1\">">>
                 \o Chars(ToStringJS(Get(p, "description"))) \o <<"</p>">>
            ELSE << >>
        changeHtml ==
            IF Truthy(Get(p, "change")) /\ Truthy(Get(p, "trend"))
            THEN <<"<div class=\"mt-2 flex items-center gap-1", " ">>
                 \o trendClasses \o <<"\">", "\n">> \o trendIcon
                 \o <<"\n", "<span class=\"text-sm font-medium\">">>
                 \o Chars(ToStringJS(Get(p, "change")))
                 \o <<"</span>", "\n">> \o changeDescriptionHtml
                 \o <<"\n", "</div>">>
            ELSE IF Truthy(Get(p, "change"))
            THEN <<"<div class=\"mt-2\">", "\n",
                   "<span class=\"text-sm font-medium text-foreground\">">>
                 \o Chars(ToStringJS(Get(p, "change")))
                 \o <<"</span>", "\n">> \o changeDescriptionHtml
                 \o <<"\n", "</div>">>
            ELSE << >>
    IN  \* the template, after .trim()
        Returned(<<"<div", " ">> \o ClassAttribute(classes) \o <<" ">>
                 \o attributesStringified \o <<">", "\n">>
                 \o <<"<div class=\"flex items-start justify-between\">", "\n",
                      "<div class=\"flex-1\">", "\n">>
                 \o titleHtml
                 \o <<"\n", "<div class=\"flex items-baseline gap-2\">", "\n">>
                 \o valueHtml \o <<"\n", "</div>", "\n">>
                 \o descriptionHtml \o <<"\n">>
                 \o changeHtml \o <<"\n", "</div>", "\n">>
                 \o iconSvg \o <<"\n", "</div>", "\n", "</div>">>)

(* -- activity item: utils.ts 47..157 -- *)

\* clsx(activityItemVariants({ hasBorder }), className)
getActivityItemClasses(p) ==
    clsx(<<Str(cva(activityItemVariants, p)), Get(p, "className")>>)

\* statusColorClasses[props.statusColor], undefined for a name not in it
statusColorClasses(color) ==
    LET key == ToStringJS(color)
    IN  CASE key = <<"blue">>   -> Str(<<"bg-blue-600">>)
          [] key = <<"green">>  -> Str(<<"bg-green-600">>)
          [] key = <<"yellow">> -> Str(<<"bg-yellow-600">>)
          [] key = <<"red">>    -> Str(<<"bg-red-600">>)
          [] key = <<"purple">> -> Str(<<"bg-purple-600">>)
          [] OTHER              -> Undefined

\* props['data-testid'] ? `data-testid="${props['data-testid']}"` : ''
TestIdAttribute(p) ==
    IF Truthy(Get(p, "data-testid"))
    THEN <<"data-testid=\"">> \o Chars(ToStringJS(Get(p, "data-testid")))
         \o <<"\"">>
    ELSE << >>

createActivityItem(p) ==
    LET classes    == getActivityItemClasses(p)
        attributes == TestIdAttribute(p)
        statusColor ==
            IF Truthy(Get(p, "statusColor"))
            THEN statusColorClasses(Get(p, "statusColor"))
            ELSE Str(<<"bg-blue-600">>)
        descriptionHtml ==
            IF Truthy(Get(p, "description"))
            THEN <<"<p class=\"text-xs text-gray-500 mt-1\">">>
                 \o Chars(ToStringJS(Get(p, "description"))) \o <<"</p>">>
            ELSE << >>
    IN  Returned(<<"\n", "<div", " ">> \o ClassAttribute(classes) \o <<" ">>
                 \o attributes \o <<">", "\n">>
                 \o <<"<div class=\"flex items-center gap-4\">", "\n",
                      "<div class=\"relative\">", "\n",
                      "<div class=\"w-3 h-3", " ">>
                 \o Chars(ToStringJS(statusColor))
                 \o <<" ", "rounded-full status-dot\"></div>", "\n",
                      "</div>", "\n", "<div>", "\n",
                      "<p class=\"text-sm font-medium text-gray-900\">">>
                 \o Chars(ToStringJS(Get(p, "title"))) \o <<"</p>", "\n">>
                 \o descriptionHtml
                 \o <<"\n", "</div>", "\n", "</div>", "\n",
                      "<span class=\"text-xs text-gray-500 font-medium\">">>
                 \o Chars(ToStringJS(Get(p, "timeAgo")))
                 \o <<"</span>", "\n", "</div>", "\n">>)

(* -- user-info block: user-info-fields.ts 1..48 -- *)

createUserInfoFields(p) ==
    LET attributes == TestIdAttribute(p)
        user       == Get(p, "user")
        FieldBlock(label, valueClass, f) ==
            <<"<div class=\"p-4 bg-gray-50 rounded-lg border border-gray-100\">",
              "\n", label, "\n", valueClass>>
            \o Chars(ToStringJS(Field(user, f)))
            \o <<"</p>", "\n", "</div>", "\n">>
    IN  IF user.t \in {"undefined", "null"}
        THEN Thrown     \* cannot read properties of undefined
        ELSE Returned(<<"\n", "<div", " ", "class=\"", "space-y-4", "\"", " ">>
                      \o attributes \o <<">", "\n">>
                      \o FieldBlock("<label>Full Name</label>",
                                    "<p class=\"text-gray-900 mt-1 font-medium\">",
                                    "name")
                      \o FieldBlock("<label>Email Address</label>",
                                    "<p class=\"text-gray-900 mt-1 font-medium\">",
                                    "email")
                      \o FieldBlock("<label>User ID</label>",
                                    "<p class=\"text-gray-900 mt-1 font-mono text-sm\">",
                                    "id")
                      \o <<"</div>", "\n">>)

----------------------------------------------------------------------------
(* The calls: a caller builds a props object and calls one operation *)

\* the number of entries of the largest props object a caller builds
MaxProps == 2

\* the number of entries of the largest attribute mapping a caller builds
MaxAttributes == 3

Entry(k, v) == [k |-> k, v |-> v]

\* the entries callers build props objects from
PropEntries ==
    { Entry("variant", Str(<<"outlined">>)),
      Entry("variant", Str(<<"destructive">>)),
      Entry("variant", Undefined),
      Entry("variant", Null),
      Entry("size", Str(<<"lg">>)),
      Entry("size", Str(<<"huge">>)),
      Entry("size", Str(<< >>)),
      Entry("state", Str(<<"error">>)),
      Entry("padding", Str(<<"sm">>)),
      Entry("padding", Str(<<"xl">>)),
      Entry("hasBorder", Bool(FALSE)),
      Entry("hasBorder", Str(<<"maybe">>)),
      Entry("className", Str(<<"py-2">>)),
      Entry("className", Str(<<"p-2", "block">>)),
      Entry("className", Str(<<"custom", "justify-start", "custom">>)),
      Entry("className", Str(<<"flex", "text-lg">>)),
      Entry("children", Str(<<"<b>Hello</b>">>)),
      Entry("name", Str(<<"Ada", "Lovelace">>)),
      Entry("src", Str(<<"/a.png">>)),
      Entry("title", Str(<<"Revenue">>)),
      Entry("value", Num(0)),
      Entry("user", Obj(<<Entry("name", Str(<<"Ada", "Lovelace">>)),
                          Entry("email", Str(<<"ada@example.com">>)),
                          Entry("id", Str(<<"u1">>))>>)),
      Entry("id", Str(<<"x">>)),
      Entry("data-testid", Str(<<"t1">>)),
      Entry("hidden", Bool(FALSE)),
      Entry("disabled", Bool(TRUE)),
      Entry("readOnly", Bool(TRUE)),
      Entry("onInput", Str(<<"track()">>)) }

\* the entries callers build attribute mappings from: every kind of value
\* the serializer tells apart
AttributeEntries ==
    { Entry("id", Str(<<"x">>)),
      Entry("aria-label", Str(<<"a", "&", "<b>">>)),
      Entry("tabindex", Num(5)),
      Entry("disabled", Bool(TRUE)),
      Entry("hidden", Bool(FALSE)),
      Entry("lang", Null),
      Entry("dir", Undefined) }

\* the objects of at most n entries drawn from a set of entries, keys
\* distinct, in every insertion order
RECURSIVE ObjectsUpTo(_, _)
ObjectsUpTo(entries, n) ==
    IF n = 0 THEN {<< >>}
    ELSE LET smaller == ObjectsUpTo(entries, n - 1)
         IN  smaller \cup
             {Append(pe[1], pe[2]) :
                  pe \in {x \in smaller \X entries : ~Has(x[1], x[2].k)}}

PropsInputs ==
    ObjectsUpTo(PropEntries, MaxProps)
    \cup ObjectsUpTo(AttributeEntries, MaxAttributes)

NoOutput == Returned(<< >>)

\* an inline helper invocation has no block: options.fn is undefined
NoBlock == [present |-> FALSE, renders |-> Undefined]

\* nothing returned to the template engine
NoReturn == [safe |-> FALSE, string |-> << >>, value |-> Undefined]

\* no response was sent: reply.sent is false
NoResponse ==
    [sent |-> FALSE, status |-> 0, location |-> "", view |-> "",
     data |-> << >>]

\* no earlier call, no template being evaluated, no request served
Quiet ==
    /\ calls = {}
    /\ stack = << >>
    /\ trace = << >>
    /\ session = << >>
    /\ response = NoResponse

\* a call made outside bootstrap and outside a helper invocation
Standalone ==
    /\ Quiet
    /\ block = NoBlock
    /\ returned = NoReturn
    /\ pc = "listening"
    /\ helpers = {}
    /\ registrations = 0
    /\ served = 0

Init ==
    /\ props \in PropsInputs
    /\ called = "none"
    /\ out = NoOutput
    /\ Standalone

\* a call whose result depends on the calls made before it
Call_Stateful(name, result) ==
    /\ called = "none"
    /\ called' = name
    /\ out' = IF calls = {} THEN result ELSE Thrown
    /\ UNCHANGED <<props, block, returned, process, elsewhere>>

\* one call of an operation on the props object
Call(name, result) ==
    /\ called = "none"
    /\ called' = name
    /\ out' = result
    /\ UNCHANGED <<props, block, returned, process, elsewhere>>

Serialize == Call("createAttributesStringified",
                  Returned(createAttributesStringified(props)))
CreateCard == Call("createCard", createCard(props))
CreateCardHeader == Call("createCardHeader", createCardHeader(props))
CreateCardTitle == Call("createCardTitle", createCardTitle(props))
CreateCardDescription ==
    Call("createCardDescription", createCardDescription(props))
CreateCardAction == Call("createCardAction", createCardAction(props))
CreateCardContent == Call("createCardContent", createCardContent(props))
CreateCardFooter == Call("createCardFooter", createCardFooter(props))
CreateBadge == Call("createBadge", createBadge(props))
CreateInput == Call("createInput", createInput(props))
CreateAvatar == Call("createAvatar", createAvatar(props))
CreateKPI == Call("createKPI", createKPI(props))
CreateActivityItem == Call("createActivityItem", createActivityItem(props))
CreateUserInfoFields ==
    Call("createUserInfoFields", createUserInfoFields(props))

Next ==
    \/ Serialize
    \/ CreateCard
    \/ CreateCardHeader
    \/ CreateCardTitle
    \/ CreateCardDescription
    \/ CreateCardAction
    \/ CreateCardContent
    \/ CreateCardFooter
    \/ CreateBadge
    \/ CreateInput
    \/ CreateAvatar
    \/ CreateKPI
    \/ CreateActivityItem
    \/ CreateUserInfoFields

Spec == Init /\ [][Next]_vars

----------------------------------------------------------------------------
(* Sequences of calls: a caller calls the factories one after another,     *)
(* each time with a props object it builds                                 *)

\* the number of earlier calls a caller keeps the results of
MaxCalls == 2

\* the props objects the caller builds
SequenceProps ==
    { <<Entry("className", Str(<<"py-2">>)),
        Entry("children", Str(<<"<b>Hello</b>">>))>>,
      <<Entry("name", Str(<<"Ada", "Lovelace">>)),
        Entry("title", Str(<<"Revenue">>))>> }

SequenceInit ==
    /\ props \in SequenceProps
    /\ called = "none"
    /\ out = NoOutput
    /\ Standalone

\* the caller keeps the result of the call it made and builds the props
\* object of its next call
NextCall ==
    /\ called # "none"
    /\ Cardinality(calls) < MaxCalls
    /\ calls' = calls \cup {[name |-> called, props |-> props, out |-> out]}
    /\ called' = "none"
    /\ out' = NoOutput
    /\ props' \in SequenceProps
    /\ UNCHANGED <<block, returned, process, stack, trace, session, response>>

SequenceNext ==
    \/ Next
    \/ NextCall

SequenceSpec == SequenceInit /\ [][SequenceNext]_vars

----------------------------------------------------------------------------
(* Calls with structural props: the avatar, the KPI, the activity item and *)
(* the user-info block read props by key, so the props objects are built   *)
(* in one key order                                                        *)

\* the number of entries of the largest props object of structural props
MaxStructural == 3

\* the structural keys and the values callers give them
StructuralValues ==
    << [k |-> "name",        vs |-> {Str(<<"Prince">>),
                                     Str(<<"ada", "King", "lovelace">>),
                                     Str(<<"3po">>), Str(<< >>), Num(42)}],
       [k |-> "src",         vs |-> {Str(<<"/a.png">>)}],
       [k |-> "statusColor", vs |-> {Str(<<"green">>), Str(<<"pink">>)}],
       [k |-> "iconColor",   vs |-> {Str(<<"red">>), Str(<<"pink">>)}],
       [k |-> "iconPath",    vs |-> {Str(<<"M13", "7h8">>)}],
       [k |-> "trend",       vs |-> {Str(<<"up">>), Str(<<"neutral">>),
                                     Str(<<"sideways">>)}],
       [k |-> "change",      vs |-> {Str(<<"+12%">>), Num(0)}],
       [k |-> "changeDescription",
                             vs |-> {Str(<<"from", "last", "month">>)}],
       [k |-> "title",       vs |-> {Str(<<"Revenue">>), Str(<< >>)}],
       [k |-> "value",       vs |-> {Num(0), Str(<<"1,204">>)}],
       [k |-> "description", vs |-> {Str(<<"Monthly">>)}],
       [k |-> "timeAgo",     vs |-> {Str(<<"now">>)}],
       [k |-> "user",        vs |-> {Obj(<<Entry("name", Str(<<"Ada", "Lovelace">>)),
                                           Entry("email", Str(<<"ada@example.com">>)),
                                           Entry("id", Str(<<"u1">>))>>),
                                     Obj(<< >>), Null}] >>

\* the props objects of at most n entries over the keys from the i-th on
RECURSIVE StructuralProps(_, _)
StructuralProps(i, n) ==
    IF i > Len(StructuralValues) \/ n = 0 THEN {<< >>}
    ELSE StructuralProps(i + 1, n) \cup
         {<<Entry(StructuralValues[i].k, v)>> \o rest :
              v \in StructuralValues[i].vs,
              rest \in StructuralProps(i + 1, n - 1)}

StructuralInit ==
    /\ props \in StructuralProps(1, MaxStructural)
    /\ called = "none"
    /\ out = NoOutput
    /\ Standalone

StructuralNext ==
    \/ CreateAvatar
    \/ CreateKPI
    \/ CreateActivityItem
    \/ CreateUserInfoFields

StructuralSpec == StructuralInit /\ [][StructuralNext]_vars

----------------------------------------------------------------------------
(* The helper registry: part_004.  A template invokes a component helper  *)
(* with named arguments (options.hash) and, in block form, a block        *)
(* (options.fn) whose rendering is a string.                              *)

\* the characters of a run of tokens as one string
RECURSIVE Text(_)
Text(q) ==
    IF Len(q) = 0 THEN ""
    ELSE IF Len(q) = 1 THEN q[1]
    ELSE LET h == Len(q) \div 2
         IN  Text(SubSeq(q, 1, h)) \o Text(SubSeq(q, h + 1, Len(q)))

\* markup as a string value: its words are the runs between the spaces
MarkupString(html) ==
    LET spaces == {i \in DOMAIN html : html[i] = " "}
        \* where the k-th space is (0 before the first, Len + 1 after the last)
        SpaceAt(k) ==
            IF k = 0 THEN 0
            ELSE IF k > Cardinality(spaces) THEN Len(html) + 1
            ELSE CHOOSE i \in spaces :
                     Cardinality({j \in spaces : j <= i}) = k
    IN  Str([k \in 1..(Cardinality(spaces) + 1) |->
                 Text(SubSeq(html, SpaceAt(k - 1) + 1, SpaceAt(k) - 1))])

\* a block whose rendering, options.fn(this), gives the string s
Block(s) == [present |-> TRUE, renders |-> s]

\* a wrapper that returns the factory's markup as a plain string
SafeString_Plain(html) ==
    [safe |-> FALSE, string |-> html, value |-> Undefined]

\* new Handlebars.SafeString(html)
SafeString(html) == [safe |-> TRUE, string |-> html, value |-> Undefined]

\* a block that supplies children only when no children argument is named
WithBlock_KeepNamed(hash, blk) ==
    IF blk.present /\ ~Has(hash, "children")
    THEN Assign(hash, "children", blk.renders)
    ELSE hash

\* if (options.fn) { props.children = options.fn(this); }
WithBlock(hash, blk) ==
    IF blk.present THEN Assign(hash, "children", blk.renders) ELSE hash

\* what an invocation leaves: the factory's result and the helper's return
\* value (none when the factory raised)
Wrapped(result) ==
    [out |-> result,
     returned |-> IF result.threw THEN NoReturn
                  ELSE SafeString(result.html)]

\* the names registerHandlebarsHelpers binds to components
ComponentHelpers ==
    {"button", "input", "avatar", "badge", "activityItem", "kpi",
     "userInfoFields", "card", "cardHeader", "cardTitle",
     "cardDescription", "cardAction", "cardContent", "cardFooter"}

\* the helper bound to a name, invoked with named arguments and a block:
\* button, card and the card sub-regions read the block, the others do not
HelperOf(name, hash, blk) ==
    CASE name = "button"          -> Wrapped(createButton(WithBlock(hash, blk)))
      [] name = "input"           -> Wrapped(createInput(hash))
      [] name = "avatar"          -> Wrapped(createAvatar(hash))
      [] name = "badge"           -> Wrapped(createBadge(hash))
      [] name = "activityItem"    -> Wrapped(createActivityItem(hash))
      [] name = "kpi"             -> Wrapped(createKPI(hash))
      [] name = "userInfoFields"  -> Wrapped(createUserInfoFields(hash))
      [] name = "card"            -> Wrapped(createCard(WithBlock(hash, blk)))
      [] name = "cardHeader"      ->
             Wrapped(createCardHeader(WithBlock(hash, blk)))
      [] name = "cardTitle"       ->
             Wrapped(createCardTitle(WithBlock(hash, blk)))
      [] name = "cardDescription" ->
             Wrapped(createCardDescription(WithBlock(hash, blk)))
      [] name = "cardAction"      ->
             Wrapped(createCardAction(WithBlock(hash, blk)))
      [] name = "cardContent"     ->
             Wrapped(createCardContent(WithBlock(hash, blk)))
      [] name = "cardFooter"      ->
             Wrapped(createCardFooter(WithBlock(hash, blk)))

\* the number of named arguments of the largest helper invocation
MaxHash == 2

\* the named arguments templates pass
HashEntries ==
    { Entry("children", Str(<<"Inline">>)),
      Entry("children", Num(0)),
      Entry("className", Str(<<"py-2">>)),
      Entry("variant", Str(<<"outlined">>)),
      Entry("id", Str(<<"x">>)),
      Entry("disabled", Bool(TRUE)),
      Entry("name", Str(<<"Ada", "Lovelace">>)),
      Entry("user", Obj(<<Entry("name", Str(<<"Ada", "Lovelace">>)),
                          Entry("email", Str(<<"ada@example.com">>)),
                          Entry("id", Str(<<"u1">>))>>)) }

\* a card header and a card content rendered one after the other, as the
\* block of a card renders them
HeaderAndContent ==
    createCardHeader(<<Entry("children", Str(<<"Title">>))>>).html
    \o createCardContent(<<Entry("className", Str(<<"px-2">>)),
                           Entry("children", Str(<<"Some", "text">>))>>).html

\* the blocks of block-form invocations, by what they render
Blocks ==
    { Block(Str(<< >>)),
      Block(Str(<<"Hello">>)),
      Block(Str(<<"<b>Hello</b>", "world">>)),
      Block(MarkupString(HeaderAndContent)) }

HelperInit ==
    /\ props \in ObjectsUpTo(HashEntries, MaxHash)
    /\ block \in {NoBlock} \cup Blocks
    /\ called = "none"
    /\ out = NoOutput
    /\ returned = NoReturn
    /\ pc = "listening"
    /\ helpers = {}
    /\ registrations = 0
    /\ served = 0
    /\ Quiet

\* the template engine invokes one helper with the named arguments and
\* the block
Invoke(name, result) ==
    /\ called = "none"
    /\ called' = name
    /\ out' = result.out
    /\ returned' = result.returned
    /\ UNCHANGED <<props, block, process, elsewhere>>

InvokeButton == Invoke("button", HelperOf("button", props, block))
InvokeInput == Invoke("input", HelperOf("input", props, block))
InvokeAvatar == Invoke("avatar", HelperOf("avatar", props, block))
InvokeBadge == Invoke("badge", HelperOf("badge", props, block))
InvokeActivityItem == Invoke("activityItem", HelperOf("activityItem", props, block))
InvokeKpi == Invoke("kpi", HelperOf("kpi", props, block))
InvokeUserInfoFields == Invoke("userInfoFields", HelperOf("userInfoFields", props, block))
InvokeCard == Invoke("card", HelperOf("card", props, block))
InvokeCardHeader == Invoke("cardHeader", HelperOf("cardHeader", props, block))
InvokeCardTitle == Invoke("cardTitle", HelperOf("cardTitle", props, block))
InvokeCardDescription == Invoke("cardDescription", HelperOf("cardDescription", props, block))
InvokeCardAction == Invoke("cardAction", HelperOf("cardAction", props, block))
InvokeCardContent == Invoke("cardContent", HelperOf("cardContent", props, block))
InvokeCardFooter == Invoke("cardFooter", HelperOf("cardFooter", props, block))

HelperNext ==
    \/ InvokeButton
    \/ InvokeInput
    \/ InvokeAvatar
    \/ InvokeBadge
    \/ InvokeActivityItem
    \/ InvokeKpi
    \/ InvokeUserInfoFields
    \/ InvokeCard
    \/ InvokeCardHeader
    \/ InvokeCardTitle
    \/ InvokeCardDescription
    \/ InvokeCardAction
    \/ InvokeCardContent
    \/ InvokeCardFooter

HelperSpec == HelperInit /\ [][HelperNext]_vars

----------------------------------------------------------------------------
(* Template evaluation: the view engine walks a template; a block-form    *)
(* helper invocation has its wrapper evaluate the block, options.fn(this), *)
(* which walks the block's own statements, before the wrapper goes on.     *)
(* props is the data context the template is rendered with.                *)

\* the statements of a template: content, {{key}}, {{helper hash}} and
\* {{#helper hash}}body{{/helper}}
TextNode(tokens) ==
    [kind |-> "text", text |-> tokens, name |-> "", hash |-> << >>,
     body |-> << >>]
VarNode(key) ==
    [kind |-> "var", text |-> << >>, name |-> key, hash |-> << >>,
     body |-> << >>]
InlineNode(name, hash) ==
    [kind |-> "inline", text |-> << >>, name |-> name, hash |-> hash,
     body |-> << >>]
BlockNode(name, hash, body) ==
    [kind |-> "block", text |-> << >>, name |-> name, hash |-> hash,
     body |-> body]

\* the deepest nesting of block-form invocations in a template
MaxDepth == 3

\* blocks that enclose no other block
Leaves ==
    { <<TextNode(<<"Admin", " ", "Controls">>)>>,
      <<TextNode(<<"Hi,", " ">>), VarNode("name")>>,
      <<InlineNode("button", <<Entry("children", Str(<<"Go">>))>>)>> }

\* the bodies that nest block-form invocations at most d deep: a card
\* encloses a cardHeader, which encloses a cardTitle
RECURSIVE Bodies(_)
Bodies(d) ==
    IF d = 0 THEN Leaves
    ELSE LET name == CASE d = 1 -> "cardTitle"
                       [] d = 2 -> "cardHeader"
                       [] d = 3 -> "card"
                       [] OTHER -> "cardContent"
         IN  Bodies(d - 1)
             \cup {<<BlockNode(name, << >>, body)>> : body \in Bodies(d - 1)}
             \cup {<<BlockNode(name, << >>, body),
                     BlockNode("cardFooter",
                               <<Entry("className", Str(<<"px-2">>))>>,
                               <<TextNode(<<"Body">>)>>)>> :
                       body \in Bodies(d - 1)}

\* an evaluation in progress: the statements left and the output so far
Frame(name, hash, body) ==
    [name |-> name, hash |-> hash, body |-> body, todo |-> body,
     rendered |-> << >>]

\* the data contexts templates are rendered with
Contexts == {<< >>, <<Entry("name", Str(<<"Ada">>))>>}

NestedInit ==
    /\ props \in Contexts
    /\ called = "none"
    /\ out = NoOutput
    /\ block = NoBlock
    /\ returned = NoReturn
    /\ pc = "listening"
    /\ helpers = {}
    /\ registrations = 0
    /\ served = 0
    /\ calls = {}
    /\ trace = << >>
    /\ session = << >>
    /\ response = NoResponse
    /\ stack \in {<<Frame("template", << >>, body)>> :
                      body \in Bodies(MaxDepth)}

\* the innermost evaluation in progress
Top == stack[Len(stack)]

\* {{key}}: the context's value as text, nothing for undefined and null
Mustache(v) ==
    IF v.t \in {"undefined", "null"} THEN << >> ELSE Chars(ToStringJS(v))

\* the evaluation appends a content statement or a {{key}}
AppendContent ==
    /\ Top.todo # << >>
    /\ Head(Top.todo).kind \in {"text", "var"}
    /\ stack' = [stack EXCEPT
                   ![Len(stack)].todo = Tail(@),
                   ![Len(stack)].rendered =
                       @ \o (IF Head(Top.todo).kind = "text"
                             THEN Head(Top.todo).text
                             ELSE Mustache(Get(props, Head(Top.todo).name)))]
    /\ UNCHANGED <<props, called, out, block, returned, process, calls,
                   trace, session, response>>

\* {{helper hash}}: the wrapper runs with options.fn undefined
CallInline ==
    /\ Top.todo # << >>
    /\ Head(Top.todo).kind = "inline"
    /\ LET node   == Head(Top.todo)
           result == HelperOf(node.name, node.hash, NoBlock)
       IN  /\ called' = node.name
           /\ out' = result.out
           /\ returned' = result.returned
           /\ trace' = Append(trace, [name |-> node.name,
                                      out |-> result.out])
           /\ stack' = [stack EXCEPT
                          ![Len(stack)].todo = Tail(@),
                          ![Len(stack)].rendered =
                              @ \o result.returned.string]
    /\ UNCHANGED <<props, block, process, calls, session, response>>

\* {{#helper hash}}: the wrapper calls options.fn(this), which starts the
\* evaluation of the block with the same data context
EnterBlock ==
    /\ Top.todo # << >>
    /\ Head(Top.todo).kind = "block"
    /\ LET node == Head(Top.todo)
       IN  stack' = Append([stack EXCEPT ![Len(stack)].todo = Tail(@)],
                           Frame(node.name, node.hash, node.body))
    /\ UNCHANGED <<props, called, out, block, returned, process, calls,
                   trace, session, response>>

\* a block evaluation that returns nothing
Rendering_Empty(frame) == << >>

\* what options.fn(this) returns: the output of the block's evaluation
Rendering(frame) == frame.rendered

\* options.fn(this) has returned: the wrapper sets props.children, calls
\* the factory and returns its markup into the enclosing evaluation
LeaveBlock ==
    /\ Len(stack) > 1
    /\ Top.todo = << >>
    /\ LET blk    == Block(MarkupString(Rendering(Top)))
           result == HelperOf(Top.name, Top.hash, blk)
           outer  == SubSeq(stack, 1, Len(stack) - 1)
       IN  /\ called' = Top.name
           /\ block' = blk
           /\ out' = result.out
           /\ returned' = result.returned
           /\ trace' = Append(trace, [name |-> Top.name,
                                      out |-> result.out])
           /\ stack' = [outer EXCEPT
                          ![Len(outer)].rendered =
                              @ \o result.returned.string]
    /\ UNCHANGED <<props, process, calls, session, response>>

NestedNext ==
    \/ AppendContent
    \/ CallInline
    \/ EnterBlock
    \/ LeaveBlock

NestedSpec == NestedInit /\ [][NestedNext]_vars

----------------------------------------------------------------------------
(* The process: bootstrap() of main.ts (auth.guard.ts 236..310) brings the *)
(* application up, Nest runs the modules' init hooks inside app.listen()   *)
(* before the server accepts connections, then requests render templates   *)

\* the number of template renders served
MaxServed == 2

\* the names registerHandlebarsHelpers binds to template logic
LogicHelpers ==
    {"eq", "ne", "gt", "lt", "gte", "lte", "and", "or", "not", "substring"}

\* registerHandlebarsHelpers(): every registerHelper call binds its name
registerHandlebarsHelpers(table) ==
    table \cup ComponentHelpers \cup LogicHelpers

\* an init hook that registers nothing
onModuleInit_Empty(registry) == registry

\* UiModule.onModuleInit(): one call of registerHandlebarsHelpers
onModuleInit(registry) ==
    [helpers |-> registerHandlebarsHelpers(registry.helpers),
     registrations |-> registry.registrations + 1]

BootInit ==
    /\ pc = "create"
    /\ helpers = {}
    /\ registrations = 0
    /\ served = 0
    /\ Quiet
    /\ props = << >>
    /\ block = NoBlock
    /\ called = "none"
    /\ out = NoOutput
    /\ returned = NoReturn

\* one awaited step of bootstrap() that touches neither helpers nor renders
Step(from, to) ==
    /\ pc = from
    /\ pc' = to
    /\ UNCHANGED <<props, called, out, block, returned, helpers,
                   registrations, served, elsewhere>>

\* await NestFactory.create(AppModule, new FastifyAdapter())
Create == Step("create", "plugins")
\* await app.register(...) of fastifySecureSession, fastifyStatic and
\* fastifyView with the handlebars engine
RegisterPlugins == Step("plugins", "swagger")
\* SwaggerModule.createDocument / setup
SetupSwagger == Step("swagger", "init")

\* app.listen(port), first half: app.init() runs the onModuleInit hooks
ModuleInit ==
    /\ pc = "init"
    /\ pc' = "listen"
    /\ helpers' = onModuleInit([helpers |-> helpers,
                                registrations |-> registrations]).helpers
    /\ registrations' = onModuleInit([helpers |-> helpers,
                                      registrations |-> registrations]).registrations
    /\ UNCHANGED <<props, called, out, block, returned, served, elsewhere>>

\* app.listen(port), second half: the server accepts connections
Listen == Step("listen", "listening")

\* a request is served: the view engine renders a template, which invokes
\* a bound component helper with named arguments and maybe a block
Render ==
    /\ pc = "listening"
    /\ served < MaxServed
    /\ \E name \in ComponentHelpers \cap helpers,
          hash \in ObjectsUpTo(HashEntries, 1),
          blk \in {NoBlock} \cup Blocks :
           /\ props' = hash
           /\ block' = blk
           /\ called' = name
           /\ out' = HelperOf(name, hash, blk).out
           /\ returned' = HelperOf(name, hash, blk).returned
    /\ served' = served + 1
    /\ UNCHANGED <<pc, helpers, registrations, elsewhere>>

BootNext ==
    \/ Create
    \/ RegisterPlugins
    \/ SetupSwagger
    \/ ModuleInit
    \/ Listen
    \/ Render

BootSpec == BootInit /\ [][BootNext]_vars

----------------------------------------------------------------------------
(* The web layer: the routes of AuthController, DashboardController and   *)
(* AppController on one browser session.  Nest runs the guards, then the   *)
(* handler, then answers as the route's @Render or @Redirect decorator     *)
(* says; props is the body of the last POST /auth/sign-in.                 *)

\* AuthService.users
users ==
    << <<Entry("id", Str(<<"1">>)),
         Entry("email", Str(<<"admin@example.com">>)),
         Entry("name", Str(<<"Admin", "User">>))>>,
       <<Entry("id", Str(<<"2">>)),
         Entry("email", Str(<<"user@example.com">>)),
         Entry("name", Str(<<"Regular", "User">>))>> >>

\* this.users.find((u) => u[key] === value)
FindUser(key, value) ==
    LET found == {i \in DOMAIN users : Get(users[i], key) = value}
    IN  IF found = {} THEN Undefined
        ELSE Obj(users[CHOOSE i \in found : \A j \in found : i <= j])

\* a validateUser that takes any email for a user
validateUser_Guest(email, password) ==
    IF Truthy(email) /\ Truthy(password)
    THEN Obj(<<Entry("id", Str(<<"0">>)), Entry("email", email)>>)
    ELSE Null

\* AuthService.validateUser
validateUser(email, password) ==
    LET user == FindUser("email", email)
    IN  IF Truthy(user) /\ Truthy(password) THEN user ELSE Null

\* AuthService.findUserById
findUserById(id) ==
    IF Truthy(FindUser("id", id)) THEN FindUser("id", id) ELSE Null

\* a guard that lets every request through
canActivate_Open(sess) == TRUE

\* AuthGuard.canActivate: true, or UnauthorizedException (FALSE)
canActivate(sess) == Truthy(Get(sess, "userId"))

\* reply.redirect(url, status) and Nest's redirect
Redirection(status, url) ==
    [sent |-> TRUE, status |-> status, location |-> url, view |-> "",
     data |-> << >>]

\* Nest's @Render: the view rendered with the handler's result
View(view, result) ==
    [sent |-> TRUE, status |-> 200, location |-> "", view |-> view,
     data |-> result.o]

\* Nest's answer to an UnauthorizedException
Unauthorized ==
    [sent |-> TRUE, status |-> 401, location |-> "", view |-> "",
     data |-> <<Entry("message", Str(<<"Authentication", "required">>))>>]

\* a reply on which a later send replaces an earlier one
Send_LastWins(reply, answer) == answer

\* a send on a reply: a reply that was sent stays as it was sent
Send(reply, answer) == IF reply.sent THEN reply ELSE answer

\* Nest's @Redirect(url): the handler's result overrides the url and the
\* status when it carries them, and 302 is the default status
Redirected(result, url) ==
    Redirection(IF Truthy(Field(result, "statusCode"))
                THEN Field(result, "statusCode").n ELSE 302,
                IF Truthy(Field(result, "url"))
                THEN Field(result, "url").s[1] ELSE url)

\* the page data of the sign-in view
SignInPage(error) ==
    Obj(<<Entry("title", Str(<<"Sign", "in">>)), Entry("error", error)>>)

\* AuthController.getSignIn: the reply after the handler and its result
getSignIn(sess) ==
    IF Truthy(Get(sess, "userId"))
    THEN [reply |-> Redirection(302, "/dashboard"), result |-> Obj(<< >>)]
    ELSE [reply |-> NoResponse, result |-> SignInPage(Null)]

\* a signIn that deletes the session when the attempt fails
signIn_DeleteOnFailure(body, sess) ==
    LET user == validateUser(Get(body, "email"), Get(body, "password"))
    IN  IF ~Truthy(user)
        THEN [result |-> SignInPage(Str(<<"Invalid">>)), session |-> << >>]
        ELSE [result |-> Undefined,
              session |-> Assign(Assign(sess, "userId", Field(user, "id")),
                                 "userEmail", Field(user, "email"))]

\* AuthController.signIn: its result and the session it leaves
signIn(body, sess) ==
    LET email    == Get(body, "email")
        password == Get(body, "password")
        user     == validateUser(email, password)
    IN  IF ~Truthy(email) \/ ~Truthy(password)
        THEN [result |-> SignInPage(Str(<<"Email", "and", "password",
                                          "are", "required">>)),
              session |-> sess]
        ELSE IF ~Truthy(user)
        THEN [result |-> SignInPage(Str(<<"Invalid", "email", "or",
                                          "password">>)),
              session |-> sess]
        ELSE [result |-> Undefined,
              session |-> Assign(Assign(sess, "userId", Field(user, "id")),
                                 "userEmail", Field(user, "email"))]

\* a logout that leaves the session as it is
logout_Keep(sess) == sess

\* AuthController.logout: request.session.delete()
logout(sess) == << >>

\* DashboardController.getDashboard
getDashboard(sess) ==
    LET user == IF Truthy(Get(sess, "userId"))
                THEN findUserById(Get(sess, "userId")) ELSE Null
    IN  Obj(<<Entry("title", Str(<<"Dashboard">>)),
              Entry("user", IF Truthy(user) THEN user ELSE Null),
              Entry("fullWidth", Bool(TRUE))>>)

\* AppController.root
root(sess) ==
    IF Truthy(Get(sess, "userId"))
    THEN Obj(<<Entry("url", Str(<<"/dashboard">>))>>)
    ELSE Obj(<<Entry("url", Str(<<"/auth/sign-in">>))>>)

\* the bodies browsers post to /auth/sign-in
SignInBodies ==
    {SelectSeq(<<Entry("email", email), Entry("password", password)>>,
               LAMBDA e : e.v # Undefined) :
         email \in {Undefined, Str(<< >>), Str(<<"admin@example.com">>),
                    Str(<<"user@example.com">>), Str(<<"eve@example.com">>)},
         password \in {Undefined, Str(<< >>), Str(<<"secret">>)}}

AuthInit ==
    /\ props = << >>
    /\ called = "none"
    /\ out = NoOutput
    /\ Standalone

\* one request: the route's handler ran, or its guard refused
Request(route, body, sess, answer) ==
    /\ called' = route
    /\ props' = body
    /\ session' = sess
    /\ response' = answer
    /\ UNCHANGED <<out, block, returned, process, calls, stack, trace>>

\* GET /auth/sign-in, @Render('sign-in')
GetSignIn ==
    Request("getSignIn", props, session,
            Send(getSignIn(session).reply,
                 View("sign-in", getSignIn(session).result)))

\* POST /auth/sign-in, @Redirect('/dashboard')
PostSignIn ==
    \E body \in SignInBodies :
        Request("signIn", body, signIn(body, session).session,
                Redirected(signIn(body, session).result, "/dashboard"))

\* POST /auth/logout, @Redirect('/auth/sign-in')
PostLogout ==
    Request("logout", props, logout(session),
            Redirected(Undefined, "/auth/sign-in"))

\* GET /dashboard, @UseGuards(AuthGuard), @Render('dashboard')
GetDashboard ==
    Request("getDashboard", props, session,
            IF canActivate(session)
            THEN View("dashboard", getDashboard(session))
            ELSE Unauthorized)

\* GET /, @Redirect('auth/sign-in')
GetRoot ==
    Request("root", props, session, Redirected(root(session), "auth/sign-in"))

AuthNext ==
    \/ GetSignIn
    \/ PostSignIn
    \/ PostLogout
    \/ GetDashboard
    \/ GetRoot

AuthSpec == AuthInit /\ [][AuthNext]_vars

----------------------------------------------------------------------------
(* The logic helpers and the substring helper: part_004 226..244.  A      *)
(* template hands them operands; an operand the data context lacks is     *)
(* undefined.                                                             *)

\* a number, or NaN
Number(n) == [nan |-> FALSE, n |-> n]
NaN == [nan |-> TRUE, n |-> 0]

\* ToNumber(v) for the operands the templates use
ToNumber(v) ==
    CASE v.t = "undefined" -> NaN
      [] v.t = "null"      -> Number(0)
      [] v.t = "boolean"   -> Number(IF v.b THEN 1 ELSE 0)
      [] v.t = "number"    -> Number(v.n)
      [] v.t = "string"    -> IF v.s = << >> THEN Number(0)
                              ELSE IF v.s = <<"7">> THEN Number(7)
                              ELSE NaN
      [] OTHER             -> NaN

\* the place of the strings the templates use in code-unit order
StringRank(v) ==
    IF v.s = << >> THEN 0 ELSE IF v.s = <<"7">> THEN 1 ELSE 2

\* a < b: strings compare by code units, anything else as numbers, and a
\* comparison with NaN is undefined
LessThan(a, b) ==
    IF a.t = "string" /\ b.t = "string"
    THEN [undefined |-> FALSE, less |-> StringRank(a) < StringRank(b)]
    ELSE IF ToNumber(a).nan \/ ToNumber(b).nan
    THEN [undefined |-> TRUE, less |-> FALSE]
    ELSE [undefined |-> FALSE, less |-> ToNumber(a).n < ToNumber(b).n]

\* what a logic helper leaves: the value it returned
Result(v) ==
    [out |-> NoOutput,
     returned |-> [safe |-> FALSE, string |-> << >>, value |-> v]]

\* a helper that raised returns nothing
Raised == [out |-> Thrown, returned |-> NoReturn]

\* the characters of the words the templates take substrings of
Letters(word) ==
    CASE word = "ada" -> <<"a", "d", "a">>
      [] word = "7"   -> <<"7">>
      [] OTHER        -> <<word>>

\* a toUpperCase() that changes nothing
UpperCase_Identity(c) == c

\* toUpperCase() of one character
UpperCase(c) ==
    CASE c = "a" -> "A"
      [] c = "d" -> "D"
      [] OTHER   -> c

\* the index String.prototype.substring makes of an argument: NaN is 0,
\* and the result is clamped to 0..len
ClampIndex(v, len) ==
    LET n == ToNumber(v)
    IN  IF n.nan \/ n.n < 0 THEN 0 ELSE IF n.n > len THEN len ELSE n.n

\* a guard that lets every str through
IsBlank_Never(str) == FALSE

\* !str
IsBlank(str) == ~Truthy(str)

\* if (!str) return ''; return str.substring(start, end).toUpperCase()
substringHelper(str, start, end) ==
    IF IsBlank(str) THEN Result(Str(<< >>))
    ELSE IF str.t # "string" THEN Raised    \* str.substring is not a function
    ELSE IF str.s = << >> THEN Result(Str(<< >>))
    ELSE LET chars == Letters(str.s[1])
             len   == Len(chars)
             from  == ClampIndex(start, len)
             to    == IF end.t = "undefined" THEN len
                      ELSE ClampIndex(end, len)
             lo    == IF from <= to THEN from ELSE to
             hi    == IF from <= to THEN to ELSE from
             slice == SubSeq(chars, lo + 1, hi)
         IN  Result(IF slice = << >> THEN Str(<< >>)
                   ELSE Str(<<Text([i \in DOMAIN slice |->
                                        UpperCase(slice[i])])>>))

\* the operands templates hand to the comparison and logical helpers
Operands ==
    {Undefined, Null, Bool(FALSE), Bool(TRUE), Num(0), Num(5),
     Str(<< >>), Str(<<"7">>), Str(<<"ada">>)}

LogicInit ==
    /\ props \in {<<Entry("a", a), Entry("b", b)>> :
                      a \in Operands, b \in Operands}
                 \cup {<<Entry("str", str), Entry("start", start),
                         Entry("end", end)>> :
                           str \in {Undefined, Str(<< >>), Str(<<"ada">>),
                                     Num(5)},
                           start \in {Undefined, Num(-1), Num(0), Num(1),
                                       Num(2), Num(5)},
                           end \in {Undefined, Num(-1), Num(0), Num(1),
                                     Num(2), Num(5)}}
    /\ called = "none"
    /\ out = NoOutput
    /\ Standalone

\* the template engine invokes a helper of two operands
Binary(name, result) ==
    /\ Has(props, "a")
    /\ Invoke(name, result)

\* a === b, a !== b
InvokeEq == Binary("eq", Result(Bool(Get(props, "a") = Get(props, "b"))))
InvokeNe == Binary("ne", Result(Bool(Get(props, "a") # Get(props, "b"))))
\* a > b, a < b
InvokeGt ==
    Binary("gt", Result(Bool(LessThan(Get(props, "b"), Get(props, "a")).less)))
InvokeLt ==
    Binary("lt", Result(Bool(LessThan(Get(props, "a"), Get(props, "b")).less)))
\* a >= b is the negation of a < b unless the comparison is undefined
InvokeGte ==
    LET c == LessThan(Get(props, "a"), Get(props, "b"))
    IN  Binary("gte", Result(Bool(~c.undefined /\ ~c.less)))
InvokeLte ==
    LET c == LessThan(Get(props, "b"), Get(props, "a"))
    IN  Binary("lte", Result(Bool(~c.undefined /\ ~c.less)))
\* a && b, a || b, !a
InvokeAnd ==
    Binary("and", Result(IF Truthy(Get(props, "a")) THEN Get(props, "b")
                         ELSE Get(props, "a")))
InvokeOr ==
    Binary("or", Result(IF Truthy(Get(props, "a")) THEN Get(props, "a")
                        ELSE Get(props, "b")))
InvokeNot == Binary("not", Result(Bool(~Truthy(Get(props, "a")))))
InvokeSubstring ==
    /\ Has(props, "str")
    /\ Invoke("substring",
              substringHelper(Get(props, "str"), Get(props, "start"),
                              Get(props, "end")))

LogicNext ==
    \/ InvokeEq
    \/ InvokeNe
    \/ InvokeGt
    \/ InvokeLt
    \/ InvokeGte
    \/ InvokeLte
    \/ InvokeAnd
    \/ InvokeOr
    \/ InvokeNot
    \/ InvokeSubstring

LogicSpec == LogicInit /\ [][LogicNext]_vars

----------------------------------------------------------------------------
(* Reading emitted markup back: the root element's opening tag, its class  *)
(* attribute and its other attributes                                      *)

Range(q) == {q[i] : i \in DOMAIN q}

\* the opening tag of the root element: the tokens up to its ">" or "/>"
RootTag(html) ==
    LET ends == {i \in DOMAIN html : html[i] \in {">", "/>"}}
    IN  IF ends = {} THEN html
        ELSE SubSeq(html, 1, CHOOSE i \in ends : \A j \in ends : i <= j)

\* tokens of a tag that are neither attribute names nor values
TagPunctuation ==
    {"\n", "<div", "<span", "<input", "<img", ">", "/>",
     "data-slot=\"card\"", "data-slot=\"card-header\"",
     "data-slot=\"card-title\"", "data-slot=\"card-description\"",
     "data-slot=\"card-action\"", "data-slot=\"card-content\"",
     "data-slot=\"card-footer\"", "data-slot=\"avatar\""}

\* tokens that hold an attribute name together with its opening quote
NamedOpeners ==
    [t \in {"class=\"", "src=\"", "alt=\"", "data-testid=\""} |->
        CASE t = "class=\"" -> "class"
          [] t = "src=\""   -> "src"
          [] t = "alt=\""   -> "alt"
          [] OTHER          -> "data-testid"]

\* An HTML tokenizer over an attribute string: the attributes in the order
\* they occur, each with its name, whether it is a bare name and the
\* tokens of its quoted value; gaps counts the spaces outside quoted
\* values, stray is TRUE when such a space follows another one
ScanAttributes(text) ==
    LET F[i \in 0..Len(text)] ==
            IF i = 0
            THEN [attrs |-> << >>, inValue |-> FALSE, gaps |-> 0,
                  stray |-> FALSE]
            ELSE LET prev == F[i - 1]
                     t    == text[i]
                     n    == Len(prev.attrs)
                 IN  IF prev.inValue
                     THEN IF t = "\""
                          THEN [prev EXCEPT !.inValue = FALSE]
                          ELSE [prev EXCEPT !.attrs[n].value = Append(@, t)]
                     ELSE IF t = " "
                     THEN [prev EXCEPT !.gaps = @ + 1,
                                       !.stray = @ \/ (i > 1 /\ text[i - 1] = " ")]
                     ELSE IF t = "=\"" /\ n > 0
                     THEN [prev EXCEPT !.inValue = TRUE,
                                       !.attrs[n].bare = FALSE]
                     ELSE IF t \in DOMAIN NamedOpeners
                     THEN [prev EXCEPT !.inValue = TRUE,
                                       !.attrs = Append(@,
                                           [name |-> NamedOpeners[t],
                                            bare |-> FALSE,
                                            value |-> << >>])]
                     ELSE IF t \in TagPunctuation
                     THEN prev
                     ELSE [prev EXCEPT !.attrs = Append(@,
                                           [name |-> t, bare |-> TRUE,
                                            value |-> << >>])]
    IN  F[Len(text)]

Least(S) == CHOOSE i \in S : \A j \in S : i <= j

\* where the root element's class attribute opens and closes in its tag
ClassOpens(tag) == Least({i \in DOMAIN tag : tag[i] = "class=\""})
ClassCloses(tag) ==
    Least({i \in DOMAIN tag : i > ClassOpens(tag) /\ tag[i] = "\""})

\* the class tokens of the root element's class attribute, in order
ClassTokens(html) ==
    LET tag == RootTag(html)
        NotSpace(t) == t # " "
    IN  SelectSeq(SubSeq(tag, ClassOpens(tag) + 1, ClassCloses(tag) - 1),
                  NotSpace)

\* what the root element's opening tag holds after its class attribute
AfterClass(html) ==
    LET tag == RootTag(html)
    IN  SubSeq(tag, ClassCloses(tag) + 1, Len(tag))

\* the attributes of the root element that follow its class attribute (the
\* factories put only the tag name and a fixed data-slot before it)
RootAttributes(html) == ScanAttributes(AfterClass(html)).attrs

\* the names of those attributes
AttributeNames(html) ==
    LET attrs == RootAttributes(html)
    IN  {attrs[i].name : i \in DOMAIN attrs}

\* the operations that are component factories
Factories ==
    {"createCard", "createCardHeader", "createCardTitle",
     "createCardDescription", "createCardAction", "createCardContent",
     "createCardFooter", "createBadge", "createInput", "createAvatar",
     "createKPI", "createActivityItem", "createUserInfoFields"}

\* a factory has run and returned markup
Rendered == called \in Factories /\ ~out.threw

----------------------------------------------------------------------------
(* Attribute Serializer properties *)

\* the entries the serializer is to emit: neither null, undefined nor false
IsEmitted(e) == e.v.t \notin {"undefined", "null"} /\ e.v # Bool(FALSE)

Serialized == called = "createAttributesStringified"

\* C1: for every attribute mapping, createAttributesStringified emits
\* nothing for an entry whose value is null, undefined or false, the bare
\* name for true, and name="String(value)" with the value's characters
\* unchanged for every other value.
C1_SerializerValueRules ==
    Serialized =>
        LET attrs    == ScanAttributes(out.html).attrs
            Named(k) == {i \in DOMAIN attrs : attrs[i].name = k}
        IN  \A j \in DOMAIN props :
                LET e == props[j]
                IN  IF e.v.t \in {"undefined", "null"} \/ e.v = Bool(FALSE)
                    THEN Named(e.k) = {}
                    ELSE /\ Cardinality(Named(e.k)) = 1
                         /\ \A i \in Named(e.k) :
                                IF e.v = Bool(TRUE)
                                THEN attrs[i].bare
                                ELSE /\ ~attrs[i].bare
                                     /\ attrs[i].value = Chars(ToStringJS(e.v))

\* C1 witness: a mapping with false, true and a number was serialized to
\* the bare name and the number's digits
C1_Witness ==
    /\ Serialized
    /\ props = <<Entry("hidden", Bool(FALSE)), Entry("disabled", Bool(TRUE)),
                 Entry("tabindex", Num(5))>>
    /\ out.html = <<"disabled", " ", "tabindex", "=\"", "5", "\"">>

\* C2: the emitted entries appear in the mapping's iteration order, with
\* exactly one space between neighbours and no leading, trailing or
\* doubled space whatever entries are omitted; if nothing is emitted the
\* result is the empty string.
C2_SerializerJoin ==
    Serialized =>
        LET scan    == ScanAttributes(out.html)
            emitted == SelectSeq(props, IsEmitted)
        IN  /\ [i \in DOMAIN scan.attrs |-> scan.attrs[i].name]
                   = [i \in DOMAIN emitted |-> emitted[i].k]
            /\ ~scan.stray
            /\ out.html # << >> =>
                   out.html[1] # " " /\ out.html[Len(out.html)] # " "
            /\ scan.gaps = (IF emitted = << >> THEN 0 ELSE Len(emitted) - 1)
            /\ emitted = << >> => out.html = << >>

\* C2 witness: an omitted entry lay between two emitted ones
C2_Witness ==
    /\ Serialized
    /\ props = <<Entry("disabled", Bool(TRUE)), Entry("hidden", Bool(FALSE)),
                 Entry("id", Str(<<"x">>))>>
    /\ out.html = <<"disabled", " ", "id", "=\"", "x", "\"">>

----------------------------------------------------------------------------
(* What the factory properties speak about *)

\* the factory named f applied to p
Apply(f, p) ==
    CASE f = "createCard"            -> createCard(p)
      [] f = "createCardHeader"      -> createCardHeader(p)
      [] f = "createCardTitle"       -> createCardTitle(p)
      [] f = "createCardDescription" -> createCardDescription(p)
      [] f = "createCardAction"      -> createCardAction(p)
      [] f = "createCardContent"     -> createCardContent(p)
      [] f = "createCardFooter"      -> createCardFooter(p)
      [] f = "createBadge"           -> createBadge(p)
      [] f = "createInput"           -> createInput(p)
      [] f = "createAvatar"          -> createAvatar(p)
      [] f = "createKPI"             -> createKPI(p)
      [] f = "createActivityItem"    -> createActivityItem(p)
      [] OTHER                       -> createUserInfoFields(p)

NoAxes(base) == [base |-> base, axes |-> << >>]

\* the base classes and the variant table each factory declares
TableOf(f) ==
    CASE f = "createCard"            -> cardVariants
      [] f = "createCardHeader"      -> NoAxes(cardHeaderBase)
      [] f = "createCardTitle"       -> NoAxes(cardTitleBase)
      [] f = "createCardDescription" -> NoAxes(cardDescriptionBase)
      [] f = "createCardAction"      -> NoAxes(cardActionBase)
      [] f = "createCardContent"     -> NoAxes(cardContentBase)
      [] f = "createCardFooter"      -> NoAxes(cardFooterBase)
      [] f = "createBadge"           -> badgeVariants
      [] f = "createInput"           -> inputVariants
      [] f = "createAvatar"          -> avatarVariants
      [] f = "createKPI"             -> kpiVariants
      [] f = "createActivityItem"    -> activityItemVariants
      [] OTHER                       -> NoAxes(<<"space-y-4">>)

\* the keys each factory declares as variant axes or structural props
ConsumedBy(f) ==
    CASE f = "createCard"  -> {"variant", "padding", "className", "children"}
      [] f \in {"createCardHeader", "createCardTitle",
                "createCardDescription", "createCardAction",
                "createCardContent", "createCardFooter"}
                           -> {"className", "children"}
      [] f = "createBadge" -> {"variant", "className", "children"}
      [] f = "createInput" -> {"variant", "size", "state", "className",
                               "onInput", "onChange", "onBlur", "onFocus"}
      [] f = "createAvatar" -> {"variant", "size", "className", "name",
                                "src", "alt"}
      [] f = "createKPI"   -> {"variant", "size", "className", "title",
                               "value", "description", "iconPath",
                               "iconColor", "change", "trend",
                               "changeDescription"}
      [] f = "createActivityItem"
                           -> {"hasBorder", "className", "title",
                               "description", "timeAgo", "statusColor"}
      [] OTHER             -> {"user", "className"}

\* the class tokens of the emitted root element
RootClasses == ClassTokens(out.html)

\* the caller's className as class tokens (none when it is not a string)
CallerClasses ==
    LET c == Get(props, "className") IN IF c.t = "string" THEN c.s ELSE << >>

\* the fragment the table declares for an axis's default value
DefaultFragment(axis) ==
    axis.values[CHOOSE i \in DOMAIN axis.values :
                    axis.values[i].name = axis.default].classes

\* v names one of the axis's values
InValueSet(axis, v) ==
    /\ v.t \in {"string", "boolean", "number"}
    /\ \E i \in DOMAIN axis.values : ToStringJS(v) = <<axis.values[i].name>>

\* a is a subsequence of b
RECURSIVE IsSubsequence(_, _)
IsSubsequence(a, b) ==
    IF a = << >> THEN TRUE
    ELSE IF b = << >> THEN FALSE
    ELSE IF a[1] = b[1] THEN IsSubsequence(Tail(a), Tail(b))
    ELSE IsSubsequence(a, Tail(b))

----------------------------------------------------------------------------
(* Factory properties *)

\* C3: a factory called with no passthrough attributes emits an opening
\* tag with no stray space: no space directly before the closing ">" and
\* no doubled space before "/>".
C3_NoStraySpaceInTag ==
    (Rendered /\ Keys(props) \subseteq ConsumedBy(called)) =>
        LET rest == AfterClass(out.html)
        IN  /\ ~ScanAttributes(rest).stray
            /\ \A i \in 1..(Len(rest) - 1) :
                   ~(rest[i] = " " /\ rest[i + 1] = ">")

\* C4: with an axis prop omitted the factory produces exactly what it
\* produces for the axis's declared default, the default's fragment is in
\* the class attribute (when the caller gives no className to override
\* it), and the class attribute never holds the token "undefined".
C4_OmittedAxisUsesDefault ==
    Rendered =>
        LET axes == TableOf(called).axes
        IN  /\ "undefined" \notin Range(RootClasses)
            /\ \A i \in DOMAIN axes :
                   ~Has(props, axes[i].axis) =>
                       /\ out = Apply(called,
                                      Append(props,
                                             Entry(axes[i].axis,
                                                   Str(<<axes[i].default>>))))
                       /\ ~Has(props, "className") =>
                              Range(DefaultFragment(axes[i]))
                                  \subseteq Range(RootClasses)

\* C4 witness: an avatar rendered without a size carries the md fragment
C4_Witness ==
    /\ called = "createAvatar"
    /\ props = <<Entry("variant", Str(<<"destructive">>))>>
    /\ {"size-10", "text-sm", "bg-destructive"} \subseteq Range(RootClasses)

\* C5: a supplied value that is not in the axis's value set gives the same
\* result as omitting the prop (the class string holds the default's
\* fragment) and the call returns.
C5_UnknownValueUsesDefault ==
    Rendered =>
        LET axes == TableOf(called).axes
        IN  \A i \in DOMAIN axes :
                (Has(props, axes[i].axis)
                 /\ ~InValueSet(axes[i], Get(props, axes[i].axis))) =>
                    out = Apply(called, RestOf(props, {axes[i].axis}))

\* C6: when the caller's className holds a utility class, no class of the
\* same property group from the base, a variant fragment or anything else
\* the factory puts on the root element remains beside it: the caller's
\* class is in the class attribute and every class of its group there is
\* the caller's.
C6_OverrideWins ==
    Rendered =>
        \A i \in DOMAIN CallerClasses :
            LET c == CallerClasses[i]
            IN  ClassId(c)[2] # "" =>
                    /\ \E t \in Range(RootClasses) :
                           t \in Range(CallerClasses) /\ ClassId(t) = ClassId(c)
                    /\ \A t \in Range(RootClasses) :
                           ClassId(t) = ClassId(c) => t \in Range(CallerClasses)

\* C7: the classes of the class attribute are the base classes, then the
\* selected fragments in the order the table declares the axes, then the
\* caller's className; no class of the factory follows the caller's.
C7_ClassOrder ==
    Rendered =>
        LET n == Len(RootClasses)
            k == Len(CallerClasses)
        IN  /\ k <= n
            /\ SubSeq(RootClasses, n - k + 1, n) = CallerClasses
            /\ IsSubsequence(SubSeq(RootClasses, 1, n - k),
                             cva(TableOf(called), props))

\* C8: no class token occurs twice in the class attribute of the root
\* element, and resolving the emitted class string again yields it
\* unchanged.
C8_NoDuplicateClass ==
    Rendered =>
        /\ \A i, j \in DOMAIN RootClasses :
               i # j => RootClasses[i] # RootClasses[j]
        /\ cn(<<Str(RootClasses)>>) = RootClasses

\* the keys C9 names for a factory: the axis and override names of any
\* factory, and the factory's own structural props
NeverAttributes(f) ==
    {"variant", "size", "state", "className", "children"}
    \cup (ConsumedBy(f) \ {"src", "alt"})

\* C9: the root element of every factory has no attribute named
\* variant, size, state, className or children, nor one named after a
\* structural prop of the factory.
C9_NoStructuralKeyLeaks ==
    Rendered => AttributeNames(out.html) \cap NeverAttributes(called) = {}

\* C9 amended: the root element has no attribute named after a key the
\* factory itself consumes (its own variant axes, className, children
\* where the factory takes children, its own structural props); a key that
\* is an axis or structural prop of another factory only is a passthrough
\* attribute.
C9_OwnKeysNeverLeak ==
    Rendered =>
        AttributeNames(out.html) \cap (ConsumedBy(called) \ {"src", "alt"})
            = {}

\* C9 witness: an input rendered with onInput carries oninput and neither
\* onInput nor className
C9_Witness ==
    /\ called = "createInput"
    /\ Has(props, "onInput")
    /\ Has(props, "className")
    /\ AttributeNames(out.html) = {"oninput"}

\* C10: every prop key that is neither a variant axis nor a structural
\* prop of the factory, and whose value the serializer emits, is an
\* attribute of the emitted root element.
C10_PassthroughForwarded ==
    Rendered =>
        \A i \in DOMAIN props :
            (props[i].k \notin ConsumedBy(called) /\ IsEmitted(props[i])) =>
                props[i].k \in AttributeNames(out.html)

----------------------------------------------------------------------------
(* Structural props: lookup tables, initials, optional fragments *)

\* the token that comes k places after the first occurrence of tok ("" when
\* tok does not occur)
Following(html, tok, k) ==
    LET at == {i \in DOMAIN html : html[i] = tok}
    IN  IF at = {} \/ Least(at) + k > Len(html) THEN ""
        ELSE html[Least(at) + k]

\* how many times a token occurs
Count(html, tok) == Cardinality({i \in DOMAIN html : html[i] = tok})

StatusDot == "<div class=\"w-3 h-3"
IconBox == "<div class=\"flex h-10 w-10 shrink-0 items-center justify-center rounded-lg"
TrendBlock == "<div class=\"mt-2 flex items-center gap-1"
PlainChangeBlock == "<div class=\"mt-2\">"

\* v is a string naming one of the keys
IsKeyOf(v, keys) == v.t = "string" /\ Len(v.s) = 1 /\ v.s[1] \in keys

\* C11: a lookup value that is absent or no key of its table gives the
\* table's default entry: a blue status dot on the activity item, blue icon
\* colours and the neutral trend colour without icon on the KPI; the
\* looked-up class is never "undefined" and the call returns.
C11_LookupFallsBackToDefault ==
    /\ called = "createActivityItem" =>
           /\ ~out.threw
           /\ Following(out.html, StatusDot, 2) # "undefined"
           /\ ~IsKeyOf(Get(props, "statusColor"),
                       {"blue", "green", "yellow", "red", "purple"}) =>
                  Following(out.html, StatusDot, 2) = "bg-blue-600"
    /\ called = "createKPI" =>
           /\ ~out.threw
           /\ "undefined" \notin Range(out.html)
           /\ (Count(out.html, IconBox) = 1
               /\ ~IsKeyOf(Get(props, "iconColor"),
                           {"blue", "purple", "cyan", "green", "yellow",
                            "red", "gray"})) =>
                  /\ Following(out.html, IconBox, 2) = "bg-blue-100"
                  /\ Following(out.html, IconBox, 4) = "text-blue-600"
           /\ (Count(out.html, TrendBlock) = 1
               /\ ~IsKeyOf(Get(props, "trend"), {"up", "down", "neutral"})) =>
                  /\ Following(out.html, TrendBlock, 2) = "text-gray-600"
                  /\ {"<svg-trend-up>", "<svg-trend-down>"}
                         \cap Range(out.html) = {}

\* the text of the avatar's root element
AvatarText ==
    SubSeq(out.html, Len(RootTag(out.html)) + 1, Len(out.html) - 1)

\* the initials the claim gives each name the callers use
ExpectedInitials(name) ==
    CASE name = Str(<<"Prince">>)                  -> <<"P">>
      [] name = Str(<<"Ada", "Lovelace">>)         -> <<"A", "L">>
      [] name = Str(<<"ada", "King", "lovelace">>) -> <<"A", "L">>
      [] name = Str(<<"3po">>)                     -> <<"3">>
      [] OTHER                                     -> << >>

\* C12: an avatar without image source is a div whose text is the
\* initials of name: the uppercased first character of a single token, the
\* uppercased first characters of the first and the last token of several,
\* nothing when name is absent or empty.
C12_AvatarInitials ==
    (called = "createAvatar" /\ ~out.threw /\ ~Truthy(Get(props, "src"))) =>
        /\ out.html[1] = "<div"
        /\ out.html[Len(out.html)] = "</div>"
        /\ AvatarText = ExpectedInitials(Get(props, "name"))

\* C12 witness: a name of three tokens gives the first and last initials
C12_Witness ==
    /\ called = "createAvatar"
    /\ Get(props, "name") = Str(<<"ada", "King", "lovelace">>)
    /\ ~out.threw
    /\ AvatarText = <<"A", "L">>

\* C13: every factory returns markup and never raises, whatever the props.
C13_FactoriesNeverRaise == called \in Factories => ~out.threw

KpiTitle == "<p class=\"text-sm font-medium text-muted-foreground mb-1\">"
KpiValue == "<h3 class=\"text-2xl font-bold text-foreground\">"
KpiDescription == "<p class=\"text-xs text-muted-foreground mt-1\">"
KpiIcon == "<svg-icon d=\""
ActivityDescription == "<p class=\"text-xs text-gray-500 mt-1\">"

\* the number of change blocks of either form
ChangeBlocks == Count(out.html, TrendBlock) + Count(out.html, PlainChangeBlock)

\* the prop is given a value (any value but undefined)
Present(key) == Get(props, key).t # "undefined"

\* the elements of the optional props and the keys they come from
KpiOptional ==
    { <<"title", KpiTitle>>, <<"value", KpiValue>>,
      <<"description", KpiDescription>>, <<"iconPath", KpiIcon>> }

\* C14: an absent optional prop emits no element, a present one (a
\* present 0 included) emits exactly one; the change block carries the trend
\* colour and icon iff trend is given, and a trend without change emits no
\* change block.
C14_PresentPropEmitsElement ==
    /\ (called = "createKPI" /\ ~out.threw) =>
           /\ \A e \in KpiOptional :
                  Count(out.html, e[2]) = IF Present(e[1]) THEN 1 ELSE 0
           /\ ChangeBlocks = IF Present("change") THEN 1 ELSE 0
           /\ Present("change") =>
                  (Count(out.html, TrendBlock) = 1 <=> Present("trend"))
    /\ (called = "createActivityItem" /\ ~out.threw) =>
           Count(out.html, ActivityDescription)
               = IF Present("description") THEN 1 ELSE 0

\* C14 amended: an absent optional prop emits no element; value emits
\* exactly one element whenever it is not undefined (0 included); title,
\* description, iconPath, change and the activity item's description emit
\* exactly one element iff they are truthy (a present '' or 0 emits none);
\* the change block carries the trend colour iff trend is truthy and the
\* trend icon only for trend 'up' or 'down'; no change, no change block.
C14_TruthyPropEmitsElement ==
    /\ (called = "createKPI" /\ ~out.threw) =>
           /\ Count(out.html, KpiValue) = IF Present("value") THEN 1 ELSE 0
           /\ \A e \in KpiOptional \ {<<"value", KpiValue>>} :
                  Count(out.html, e[2])
                      = IF Truthy(Get(props, e[1])) THEN 1 ELSE 0
           /\ ChangeBlocks = IF Truthy(Get(props, "change")) THEN 1 ELSE 0
           /\ Truthy(Get(props, "change")) =>
                  /\ Count(out.html, TrendBlock) = 1
                         <=> Truthy(Get(props, "trend"))
                  /\ Count(out.html, "<svg-trend-up>") = 1
                         <=> Get(props, "trend") = Str(<<"up">>)
                  /\ Count(out.html, "<svg-trend-down>") = 1
                         <=> Get(props, "trend") = Str(<<"down">>)
    /\ (called = "createActivityItem" /\ ~out.threw) =>
           Count(out.html, ActivityDescription)
               = IF Truthy(Get(props, "description")) THEN 1 ELSE 0

\* C14 witness: a KPI with value 0 and an empty title has the value
\* element and no title element
C14_Witness ==
    /\ called = "createKPI"
    /\ Get(props, "value") = Num(0)
    /\ Get(props, "title") = Str(<< >>)
    /\ Count(out.html, KpiValue) = 1
    /\ Count(out.html, KpiTitle) = 0

----------------------------------------------------------------------------
(* Helper invocations: blocks, children and the do-not-escape marker *)

\* the helpers of components that take children
ChildrenHelpers ==
    {"button", "badge", "card", "cardHeader", "cardTitle",
     "cardDescription", "cardAction", "cardContent", "cardFooter"}

\* the helpers that read the block of a block-form invocation
BlockHelpers == ChildrenHelpers \ {"badge"}

CardHelpers == BlockHelpers \ {"button"}

\* what lies between the root element's opening tag and its closing tag
ElementContent(html) ==
    SubSeq(html, Len(RootTag(html)) + 1, Len(html) - 1)

\* the characters a children value contributes: none when it is absent
ChildrenText(c) ==
    IF c.t \in {"undefined", "null"} THEN ""
    ELSE IF c.t = "string" THEN Text(Chars(c.s))
    ELSE Text(ToStringJS(c))

\* C15: for a helper whose component takes children, the content of the
\* element is the rendering of the block in block form, whatever children
\* the named arguments give, and the children named argument (nothing when
\* there is none) in inline form.
C15_BlockSuppliesChildren ==
    (called \in ChildrenHelpers /\ ~out.threw) =>
        Text(ElementContent(out.html))
            = IF block.present THEN ChildrenText(block.renders)
              ELSE ChildrenText(Get(props, "children"))

\* C16: every component helper returns the factory's output wrapped in
\* Handlebars.SafeString, never a plain string; when the factory raises
\* the helper returns nothing.
C16_ReturnsSafeString ==
    called \in ComponentHelpers =>
        IF out.threw THEN returned = NoReturn
        ELSE returned.safe /\ returned.string = out.html

\* C16 witness: the kpi helper returned its markup as a SafeString
C16_Witness ==
    /\ called = "kpi"
    /\ returned.safe
    /\ returned.string = out.html
    /\ Len(returned.string) > 0

\* C17: a block-form invocation of a helper that reads its block returns
\* what the inline invocation with the same named arguments and children
\* set to the block's rendering returns.
C17_BlockEqualsInlineChildren ==
    (called \in BlockHelpers /\ block.present) =>
        returned = HelperOf(called,
                            Assign(props, "children", block.renders),
                            NoBlock).returned

\* C17 witness: a card block rendering Hello beside a named children
C17_Witness ==
    /\ called = "card"
    /\ block = Block(Str(<<"Hello">>))
    /\ Get(props, "children") = Str(<<"Inline">>)
    /\ returned.safe
    /\ Text(ElementContent(returned.string)) = "Hello"

\* the children a card helper hands to its factory
GivenChildren ==
    IF block.present THEN block.renders ELSE Get(props, "children")

\* C18: the card and its sub-regions return their opening tag, then the
\* children string unchanged, then "</div>"; a header and a content
\* rendered on their own are found unchanged inside the card; absent
\* children give an empty body.
C18_ChildrenEmbeddedUnchanged ==
    (called \in CardHelpers /\ ~out.threw
     /\ GivenChildren.t \in {"undefined", "string"}) =>
        /\ RootTag(out.html)[1] = "<div"
        /\ Text(out.html) = Text(RootTag(out.html))
                            \o ChildrenText(GivenChildren) \o "</div>"
        /\ block = Block(MarkupString(HeaderAndContent)) =>
               Text(ElementContent(out.html)) = Text(HeaderAndContent)

\* C18 witness: a card whose block rendered a header and a content
C18_Witness ==
    /\ called = "card"
    /\ block = Block(MarkupString(HeaderAndContent))
    /\ ~out.threw
    /\ Text(ElementContent(out.html))
           = Text(createCardHeader(<<Entry("children", Str(<<"Title">>))>>).html)
             \o Text(createCardContent(
                         <<Entry("className", Str(<<"px-2">>)),
                           Entry("children", Str(<<"Some", "text">>))>>).html)

----------------------------------------------------------------------------
(* Startup order *)

\* C19: registerHandlebarsHelpers has completed, and has run exactly once,
\* before the server listens and so before the first render is served;
\* from then on no step writes the helper table or registers again.
C19_RegisteredOnceBeforeRender ==
    /\ [](/\ registrations <= 1
          /\ served > 0 => pc = "listening"
          /\ pc = "listening" =>
                 /\ registrations = 1
                 /\ helpers = ComponentHelpers \cup LogicHelpers)
    /\ [][pc = "listening" =>
              helpers' = helpers /\ registrations' = registrations]_vars

\* C19 witness: a render was served by a registered helper
C19_Witness ==
    /\ pc = "listening"
    /\ served = 1
    /\ registrations = 1
    /\ called = "card"
    /\ called \in helpers
    /\ returned.safe

----------------------------------------------------------------------------
(* Logic helpers on absent operands *)

\* the operands the invoked helper reads
OperandsRead ==
    IF called = "substring"
    THEN {Get(props, "str"), Get(props, "start"), Get(props, "end")}
    ELSE IF called = "not" THEN {Get(props, "a")}
    ELSE {Get(props, "a"), Get(props, "b")}

----------------------------------------------------------------------------
(* The substring helper's slice *)

\* the upper-cased characters of 'ada', by index from 0
UpperAda == <<"A", "D", "A">>

\* the upper-cased characters of 'ada' at the indexes from..to-1
SliceOfAda(from, to) ==
    LET at == {i \in 0..2 : from <= i /\ i < to}
    IN  IF at = {} THEN Str(<< >>)
        ELSE Str(<<Text([k \in 1..Cardinality(at) |->
                             UpperAda[Least(at) + k]])>>)

\* substring was invoked with an absent or empty str
SubstringOfNothing ==
    called = "substring" /\ Get(props, "str") \in {Undefined, Str(<< >>)}

\* substring was invoked with the string 'ada' and two integers
SubstringOfAda ==
    /\ called = "substring"
    /\ Get(props, "str") = Str(<<"ada">>)
    /\ Get(props, "start").t = "number"
    /\ Get(props, "end").t = "number"

\* C21: for a non-empty string and integers start and end the substring
\* helper returns the upper-cased slice from index start up to but
\* excluding index end; for an absent or empty string it returns ''.
C21_SliceFromStartToEnd ==
    /\ SubstringOfNothing => (~out.threw /\ returned.value = Str(<< >>))
    /\ SubstringOfAda =>
           /\ ~out.threw
           /\ returned.value =
                  SliceOfAda(Get(props, "start").n, Get(props, "end").n)

\* C21 amended: the slice runs from the smaller of start and end up to
\* but excluding the larger one (the two are swapped when start > end),
\* indexes outside the string are clamped to it, and the result is
\* upper-cased; for an absent or empty string the helper returns ''.
C21_SliceBetweenStartAndEnd ==
    /\ SubstringOfNothing => (~out.threw /\ returned.value = Str(<< >>))
    /\ SubstringOfAda =>
           LET a == Get(props, "start").n
               b == Get(props, "end").n
           IN  /\ ~out.threw
               /\ returned.value =
                      SliceOfAda(IF a <= b THEN a ELSE b,
                                 IF a <= b THEN b ELSE a)

\* C21 witness: substring('ada', 0, 2) returned 'AD'
C21_Witness ==
    /\ SubstringOfAda
    /\ Get(props, "start") = Num(0)
    /\ Get(props, "end") = Num(2)
    /\ returned.value = Str(<<"AD">>)

----------------------------------------------------------------------------
(* Determinism and statelessness of the factories *)

\* the calls made so far, the one just made included
CallsMade ==
    calls \cup (IF called = "none" THEN {}
                ELSE {[name |-> called, props |-> props, out |-> out]})

----------------------------------------------------------------------------
(* Nested block helpers *)

\* the statement being one of a helper
IsHelperNode(node) == node.kind \in {"inline", "block"}

\* the markup a sequence of statements expands to under a data context,
\* by structural recursion on the template; a block is expanded before
\* the helper that encloses it is applied
RECURSIVE Expand(_, _)
Expand(nodes, ctx) ==
    IF nodes = << >> THEN << >>
    ELSE LET node  == Head(nodes)
             inner == IF node.kind = "block"
                      THEN MarkupString(Expand(node.body, ctx))
                      ELSE Undefined
             first ==
                 CASE node.kind = "text" -> node.text
                   [] node.kind = "var"  -> Mustache(Get(ctx, node.name))
                   [] node.kind = "inline" ->
                          HelperOf(node.name, node.hash, NoBlock).returned.string
                   [] inner.t = "string" ->
                          HelperOf(node.name, node.hash, Block(inner))
                              .returned.string
         IN  first \o Expand(Tail(nodes), ctx)

\* the factory calls a sequence of statements asks for, every enclosed
\* helper before the helper that encloses it, each with the result the
\* factory gives on the fully expanded block
RECURSIVE PostOrder(_, _)
PostOrder(nodes, ctx) ==
    IF nodes = << >> THEN << >>
    ELSE LET node  == Head(nodes)
             inner == IF node.kind = "block"
                      THEN MarkupString(Expand(node.body, ctx))
                      ELSE Undefined
             own ==
                 CASE node.kind = "inline" ->
                          <<[name |-> node.name,
                             out |-> HelperOf(node.name, node.hash,
                                              NoBlock).out]>>
                   [] node.kind = "block" /\ inner.t = "string" ->
                          PostOrder(node.body, ctx)
                          \o <<[name |-> node.name,
                                out |-> HelperOf(node.name, node.hash,
                                                 Block(inner)).out]>>
                   [] OTHER -> << >>
         IN  own \o PostOrder(Tail(nodes), ctx)

\* the template evaluation has finished
Evaluated == Len(stack) = 1 /\ Top.todo = << >>

\* C23: the wrapper renders the enclosed block, with the template's data
\* context, before it calls the factory: at every moment the factory
\* calls made are the first ones of the template's helpers listed with
\* every enclosed helper before its enclosing one, each factory having
\* been given the fully expanded markup of its block, and when the
\* evaluation ends every helper's factory was called exactly once.
C23_InnerBeforeOuter ==
    stack # << >> =>
        LET expected == PostOrder(stack[1].body, props)
        IN  /\ Len(trace) <= Len(expected)
            /\ trace = SubSeq(expected, 1, Len(trace))
            /\ Evaluated =>
                   /\ trace = expected
                   /\ stack[1].rendered = Expand(stack[1].body, props)

\* C23 witness: a card enclosing a cardHeader enclosing a cardTitle was
\* evaluated; the three factories were called in the order cardTitle,
\* cardHeader, card
C23_Witness ==
    /\ stack # << >>
    /\ Evaluated
    /\ Len(trace) = 3
    /\ trace[1].name = "cardTitle"
    /\ trace[2].name = "cardHeader"
    /\ trace[3].name = "card"
    /\ props = <<Entry("name", Str(<<"Ada">>))>>
    /\ stack[1].body =
           <<BlockNode("card", << >>,
               <<BlockNode("cardHeader", << >>,
                   <<BlockNode("cardTitle", << >>,
                       <<TextNode(<<"Hi,", " ">>), VarNode("name")>>)>>)>>)>>

----------------------------------------------------------------------------
(* Sessions and routes *)

\* the session carries a userId
SignedIn(sess) == Has(sess, "userId") /\ Truthy(Get(sess, "userId"))

\* the user of the store a sign-in body names, if its password is given
Matching(body) ==
    {i \in DOMAIN users :
         /\ Get(body, "email") = Get(users[i], "email")
         /\ Get(body, "password") \notin {Undefined, Str(<< >>)}}

\* the response renders a view with status 200
Renders(view) ==
    /\ response.sent
    /\ response.status = 200
    /\ response.view = view
    /\ response.location = ""

\* the response is a 302 redirect
RedirectsTo(url) ==
    /\ response.sent
    /\ response.status = 302
    /\ response.location = url
    /\ response.view = ""
    /\ response.data = << >>

\* C24: the dashboard handler runs and returns dashboard data only for a
\* request whose session carries a userId; without one GET /dashboard is
\* answered 401 Unauthorized with no dashboard data.
C24_DashboardOnlyWithUserId ==
    called = "getDashboard" =>
        IF SignedIn(session)
        THEN /\ Renders("dashboard")
             /\ Get(response.data, "title") = Str(<<"Dashboard">>)
        ELSE /\ response.status = 401
             /\ response.view = ""
             /\ ~Has(response.data, "user")
             /\ ~Has(response.data, "title")

\* C24 witness: a signed-in session was served the dashboard with its user
C24_Witness ==
    /\ called = "getDashboard"
    /\ SignedIn(session)
    /\ Renders("dashboard")
    /\ Field(Get(response.data, "user"), "id") = Get(session, "userId")

\* C25: a failed POST /auth/sign-in renders the sign-in page with an error
\* message and status 200 and does not redirect to /dashboard; only a
\* successful one answers with the 302 redirect to /dashboard.
C25_FailedSignInRendersError ==
    called = "signIn" =>
        IF Matching(props) = {}
        THEN /\ Renders("sign-in")
             /\ Truthy(Get(response.data, "error"))
        ELSE RedirectsTo("/dashboard")

\* C26: after POST /auth/logout the session carries no userId, a GET
\* /dashboard on a session without userId is answered 401, and a session
\* without userId gets one only by a POST /auth/sign-in that names a user
\* of the store.
C26_LoggedOutUntilSignIn ==
    /\ [](called = "logout" => ~SignedIn(session))
    /\ []((called = "getDashboard" /\ ~SignedIn(session)) =>
              (response.status = 401 /\ response.view = ""))
    /\ [][(~SignedIn(session) /\ SignedIn(session')) =>
              (called' = "signIn" /\ Matching(props') # {})]_vars

\* C26 witness: after a sign-in that succeeded and a logout, GET
\* /dashboard was answered 401
C26_Witness ==
    /\ called = "getDashboard"
    /\ Matching(props) # {}
    /\ ~SignedIn(session)
    /\ response.status = 401

\* C27: GET /auth/sign-in on a session with a userId answers with a 302
\* redirect to /dashboard and no sign-in page, on a session without one
\* it renders the sign-in page with error null; GET / redirects to
\* /dashboard iff the session carries a userId, else to /auth/sign-in.
C27_SignInPageAndRoot ==
    /\ called = "getSignIn" =>
           IF SignedIn(session) THEN RedirectsTo("/dashboard")
           ELSE /\ Renders("sign-in")
                /\ Has(response.data, "error")
                /\ Get(response.data, "error") = Null
    /\ called = "root" =>
           IF SignedIn(session) THEN RedirectsTo("/dashboard")
           ELSE RedirectsTo("/auth/sign-in")

\* C27 witness: a signed-in session asked for the sign-in page and was
\* redirected to the dashboard
C27_Witness ==
    /\ called = "getSignIn"
    /\ SignedIn(session)
    /\ RedirectsTo("/dashboard")

\* C28: a failed POST /auth/sign-in leaves the session unchanged.
C28_FailedSignInKeepsSession ==
    [][(called' = "signIn" /\ Matching(props') = {}) =>
           session' = session]_vars

\* C28 witness: a session signed in as the admin stayed so after a failed
\* sign-in attempt
C28_Witness ==
    /\ called = "signIn"
    /\ Matching(props) = {}
    /\ Get(props, "email") = Str(<<"eve@example.com">>)
    /\ Get(session, "userId") = Str(<<"1">>)
    /\ Get(session, "userEmail") = Str(<<"admin@example.com">>)

\* C29: a session's userId is absent or the id of a user of the store,
\* and userEmail is present exactly when userId is and is that user's
\* email.
C29_SessionNamesStoreUser ==
    /\ Has(session, "userId") <=> Has(session, "userEmail")
    /\ Has(session, "userId") =>
           \E i \in DOMAIN users :
               /\ Get(session, "userId") = Get(users[i], "id")
               /\ Get(session, "userEmail") = Get(users[i], "email")

\* C29 witness: the session is the second user's after signing in as the
\* first and then as the second
C29_Witness ==
    /\ called = "signIn"
    /\ session = <<Entry("userId", Str(<<"2">>)),
                   Entry("userEmail", Str(<<"user@example.com">>))>>

----------------------------------------------------------------------------
(* Attribute names of the input tag *)

\* an attribute name in lower case
LowerCaseName(name) ==
    CASE name = "readOnly"  -> "readonly"
      [] name = "autoFocus" -> "autofocus"
      [] name = "onInput"   -> "oninput"
      [] name = "onChange"  -> "onchange"
      [] name = "onBlur"    -> "onblur"
      [] name = "onFocus"   -> "onfocus"
      [] OTHER              -> name

\* C30: the tag createInput emits carries each attribute name at most
\* once, compared case-insensitively.
C30_AttributeNameAtMostOnce ==
    (called = "createInput" /\ ~out.threw) =>
        LET attrs == RootAttributes(out.html)
        IN  \A i \in DOMAIN attrs, j \in DOMAIN attrs :
                LowerCaseName(attrs[i].name) = LowerCaseName(attrs[j].name)
                    => i = j

====
